---- MODULE Spec2Model ----
(***************************************************************************)
(* Verification model of the company-research-agent backend:               *)
(*   - job admission and the job lifecycle  (src/application.py)           *)
(*   - the stage graph and its stages       (src/backend/graph.py,         *)
(*                                           src/backend/nodes/...)        *)
(*                                                                         *)
(* Two specifications share the variables and the job-level actions:       *)
(*   Spec       several jobs compete for the job semaphore; one graph run  *)
(*              is a single step (GraphRun, the stages composed in graph   *)
(*              order).                                                    *)
(*   SpecGraph  one job, whose graph run is traced stage by stage, the     *)
(*              five researchers of the fan-out interleaved.               *)
(*                                                                         *)
(* The graph executor itself (langgraph's StateGraph) is a dependency and  *)
(* not part of the sources; it is modelled by its superstep discipline on  *)
(* the edges that Graph._build_workflow declares.                          *)
(***************************************************************************)
EXTENDS Integers, Sequences, FiniteSets, TLC

\* ------------------------------------------------------------------ bounds
\* Number of job submissions explored.
NumJobs == 2

\* Capacity of job_semaphore.  application.py:88 sets the default 5; the
\* admission properties are stated for any capacity N, and the model runs
\* them at a capacity small enough for NumJobs submissions to exhaust it.
MAX_CONCURRENT_JOBS == 1

Jobs == 1..NumJobs

\* The job whose graph run SpecGraph traces stage by stage.
TracedJob == CHOOSE j \in Jobs : \A k \in Jobs : j <= k

\* ------------------------------------------------------------- State keys
\* A pipeline State is modelled as a function from the keys present in the
\* dict to an abstract value:
\*   document maps  "docs" (non-empty) | "empty" ({})
\*   strings        "text" (non-empty) | ""
\*   lists          "list" (non-empty) | "nil" ([])
\*   company_url    "url" | "none";  airtable_record_id  "rec" | "none"
Has(st, k) == k \in DOMAIN st

Get(st, k, d) == IF k \in DOMAIN st THEN st[k] ELSE d

Put(st, k, v) == [x \in (DOMAIN st) \cup {k} |-> IF x = k THEN v ELSE st[x]]

SetDefault(st, k, v) == IF k \in DOMAIN st THEN st ELSE Put(st, k, v)

RECURSIVE SetDefaults(_, _, _)
SetDefaults(st, ks, v) ==
    IF ks = <<>> THEN st
    ELSE SetDefaults(SetDefault(st, Head(ks), v), Tail(ks), v)

\* dict.update: the right operand wins on common keys
Update(st, upd) ==
    [x \in (DOMAIN st) \cup (DOMAIN upd) |-> IF x \in DOMAIN upd THEN upd[x] ELSE st[x]]

Range(seq) == {seq[i] : i \in 1..Len(seq)}

\* Graph.__init__ / Graph.run: the initial state handed to the executor
InputState(rec, url) ==
    [k \in {"company", "company_url", "airtable_record_id", "messages"} |->
        CASE k = "company"            -> "text"
          [] k = "company_url"        -> IF url THEN "url" ELSE "none"
          [] k = "airtable_record_id" -> IF rec THEN "rec" ELSE "none"
          [] k = "messages"           -> "list"]

HasRecord(st) == Get(st, "airtable_record_id", "none") = "rec"

\* asyncio.create_task(self._update_airtable_status(record_id, text)):
\* a status ping is issued only when the State carries a record id
Ping(st, text) == IF HasRecord(st) THEN <<text>> ELSE <<>>

\* --------------------------------------------------------------- stages
research_nodes ==
    <<"company_brief_node", "news_signal_node", "flw_analyzer",
      "contact_finder", "engagement_finder">>

Researchers == {research_nodes[i] : i \in 1..Len(research_nodes)}

\* The key each researcher writes its documents under
RawKey(r) ==
    CASE r = "company_brief_node" -> "company_brief_data"
      [] r = "news_signal_node"   -> "news_signal_data"
      [] r = "flw_analyzer"       -> "flw_data"
      [] r = "contact_finder"     -> "contact_finder_data"
      [] r = "engagement_finder"  -> "engagement_finder_data"

\* Stages after the fan-in, in edge order
tail_nodes ==
    <<"collector", "curator", "enricher", "briefing", "raw_compiler",
      "tagger", "airtable_uploader">>

node_sequence == <<"grounding">> \o research_nodes \o tail_nodes

Stages == {node_sequence[i] : i \in 1..Len(node_sequence)}

\* What a stage run hands back to the executor:
\*   st     the State the stage returns (meaningless when esc)
\*   esc    an exception left the stage's run entry point
\*   pings  the external status pings the stage issued, in order
\*   diag   the stage recorded a failure diagnostic in State['messages']
Result(st, esc, pings, diag) == [st |-> st, esc |-> esc, pings |-> pings, diag |-> diag]

\* The documents a researcher ends with: the site scrape plus its search hits
Collected(st, found) ==
    IF Get(st, "site_scrape", "empty") = "docs" \/ found THEN "docs" ELSE "empty"

\* GroundingNode.run / initial_search.
\*   in.raises  a status broadcast raises (nothing in run catches it)
\*   in.crawl   "pages" | "none" | "error": outcome of the site crawl,
\*              attempted only when a company_url is given; a crawl error is
\*              caught inside initial_search and stored under 'error'
GroundingRun(st, in) ==
    LET url     == Get(st, "company_url", "none") = "url"
        scraped == Put(st, "site_scrape",
                       IF url /\ in.crawl = "pages" THEN "docs" ELSE "empty")
        out     == IF url /\ in.crawl = "error" THEN Put(scraped, "error", "text")
                   ELSE scraped
    IN  IF in.raises THEN Result(st, TRUE, Ping(st, "In Progress"), FALSE)
        ELSE Result(out, FALSE, Ping(st, "In Progress"), FALSE)

\* CompanyBriefNode.run: analyze raising is caught, but the handler calls
\* `logger`, a name company.py never defines, so a NameError leaves run.
CompanyBriefRun(st, in) ==
    IF in.raises THEN Result(st, TRUE, <<>>, FALSE)
    ELSE Result(Put(st, "company_brief_data", Collected(st, in.found)), FALSE, <<>>, FALSE)

\* NewsSignalNode.run: analyze raising is caught and the key defaulted
NewsSignalRun(st, in) ==
    IF in.raises THEN Result(SetDefault(st, "news_signal_data", "empty"), FALSE, <<>>, FALSE)
    ELSE Result(Put(st, "news_signal_data", Collected(st, in.found)), FALSE, <<>>, FALSE)

\* FLWAnalyzer.run: analyze's own handler broadcasts the error, records it in
\* messages, defaults the key and re-raises; run swallows the exception.
\*   in.hraises  the handler's error broadcast raises, so the handler stops
\*               before it defaults the key (run does not default it either)
FLWRun(st, in) ==
    IF in.raises
    THEN IF in.hraises THEN Result(st, FALSE, <<>>, FALSE)
         ELSE Result(Put(st, "flw_data", Get(st, "flw_data", "empty")), FALSE, <<>>, TRUE)
    ELSE Result(Put(st, "flw_data", Collected(st, in.found)), FALSE, <<>>, FALSE)

\* ContactFinderNode.run / EngagementFinderNode.run: as FLWAnalyzer, but run
\* defaults the key when analyze's handler did not get to it.
FinderRun(key, st, in) ==
    IF in.raises
    THEN IF in.hraises THEN Result(SetDefault(st, key, "empty"), FALSE, <<>>, FALSE)
         ELSE Result(Put(st, key, Get(st, key, "empty")), FALSE, <<>>, TRUE)
    ELSE Result(Put(st, key, Collected(st, in.found)), FALSE, <<>>, FALSE)

ContactFinderRun(st, in) == FinderRun("contact_finder_data", st, in)

EngagementFinderRun(st, in) == FinderRun("engagement_finder_data", st, in)

\* The data fields Collector.collect, Curator.curate_data and the failure
\* branch of Curator.run iterate over
legacy_fields == <<"financial_data", "news_data", "industry_data", "company_data", "flw_data">>

\* Faulty key list: the one curated field the curator fills is not read
curated_keys_without_flw ==
    <<"curated_company_brief_data", "curated_news_signal_data",
      "curated_contact_finder_data", "curated_engagement_finder_data">>

\* The curated fields Enricher, process_references_from_search_results and
\* airtable_upload_node read
v2_curated_keys ==
    <<"curated_company_brief_data", "curated_news_signal_data", "curated_flw_data",
      "curated_contact_finder_data", "curated_engagement_finder_data">>

\* Collector.run / collect: no handler anywhere in the stage.
\*   in.raises  the status broadcast in collect raises
\*   in.infer   the best scored document supplies a company_url
CollectorRun(st, in) ==
    LET filled   == SetDefaults(st, legacy_fields, "empty")
        inferred == IF /\ Get(st, "company_url", "none") = "none"
                       /\ Get(st, "flw_data", "empty") = "docs"
                       /\ in.infer
                    THEN Put(filled, "company_url", "url") ELSE filled
    IN  IF in.raises THEN Result(st, TRUE, Ping(st, "Collecting Data"), FALSE)
        ELSE Result(inferred, FALSE, Ping(st, "Collecting Data"), FALSE)

RECURSIVE CurateFields(_, _, _)
\* Curator.curate_data, the two loops over data_types: a field without
\* documents gets an empty curated set, a field with documents the documents
\* that evaluate_documents kept
CurateFields(st, fields, kept) ==
    IF fields = <<>> THEN st
    ELSE LET f == Head(fields)
             v == IF Get(st, f, "empty") = "docs" /\ kept THEN "docs" ELSE "empty"
         IN  CurateFields(Put(st, "curated_" \o f, v), Tail(fields), kept)

\* process_references_from_search_results pools the v2 curated keys
References(st) ==
    IF \E i \in 1..Len(v2_curated_keys) : Get(st, v2_curated_keys[i], "empty") = "docs"
    THEN "list" ELSE "nil"

\* Curator.run.
\*   in.raises  curate_data raises (its first status broadcast)
\*   in.kept    evaluate_documents keeps at least one document
CuratorRun(st, in) ==
    LET curated == CurateFields(st, legacy_fields, in.kept)
        done    == Put(Put(Put(curated, "references", References(curated)),
                           "reference_titles", "empty"), "reference_info", "empty")
        failed  == SetDefault(SetDefault(SetDefault(
                       SetDefaults(st, [i \in 1..Len(legacy_fields) |-> "curated_" \o legacy_fields[i]], "empty"),
                       "references", "nil"), "reference_titles", "empty"), "reference_info", "empty")
    IN  IF in.raises
        THEN Result(failed, FALSE, Ping(st, "Curating Documents") \o Ping(st, "Curation Failed"), TRUE)
        ELSE Result(done, FALSE, Ping(st, "Curating Documents"), FALSE)

\* Enricher.run.
\*   in.raises  enrich_data raises (a status broadcast outside process_category)
EnricherRun(st, in) ==
    IF in.raises
    THEN Result(SetDefaults(st, v2_curated_keys, "empty"), FALSE,
                Ping(st, "Enriching Content") \o Ping(st, "Enrichment Failed"), TRUE)
    ELSE Result(st, FALSE, Ping(st, "Enriching Content"), FALSE)

\* Briefing.create_briefings: categories, curated field -> briefing key
briefing_categories ==
    << <<"curated_financial_data", "financial_briefing">>,
       <<"curated_news_data", "news_briefing">>,
       <<"curated_industry_data", "industry_briefing">>,
       <<"curated_company_data", "company_briefing">>,
       <<"curated_flw_data", "flw_sustainability_briefing">> >>

RECURSIVE WriteBriefings(_, _, _)
WriteBriefings(st, cats, gen) ==
    IF cats = <<>> THEN st
    ELSE LET c == Head(cats)
             v == IF Get(st, c[1], "empty") = "docs" /\ gen THEN "text" ELSE ""
         IN  WriteBriefings(Put(st, c[2], v), Tail(cats), gen)

\* Briefing.run: create_briefings raising is caught, but the handler builds an
\* AIMessage, a name briefing.py never imports, so a NameError leaves run.
\*   in.raises  create_briefings raises (a status broadcast)
\*   in.gen     the generation calls return text
BriefingRun(st, in) ==
    LET written == WriteBriefings(st, briefing_categories, in.gen)
        any     == \E i \in 1..Len(briefing_categories) : written[briefing_categories[i][2]] = "text"
    IN  IF in.raises THEN Result(st, TRUE, Ping(st, "Generating Briefings"), FALSE)
        ELSE Result(Put(written, "briefings", IF any THEN "docs" ELSE "empty"), FALSE,
                    Ping(st, "Generating Briefings"), FALSE)

\* Faulty compiler: the report is made of the briefings only, so it is empty
\* when none of them has text
RawCompilerRunBare(st, in) ==
    Result(Put(st, "report",
               IF \E k \in {"company_brief_briefing", "flw_sustainability_briefing",
                             "news_signal_briefing", "engagement_briefing",
                             "contact_briefing"} : Get(st, k, "") = "text"
               THEN "text" ELSE ""),
           FALSE, <<>>, FALSE)

\* simple_report_compiler_node: the report always starts with the title line,
\* so it is never empty; no call in it can raise past it.
RawCompilerRun(st, in) == Result(Put(st, "report", "text"), FALSE, <<>>, FALSE)

\* The briefing keys simple_report_compiler_node and Tagger read
report_order ==
    <<"company_brief_briefing", "flw_sustainability_briefing", "news_signal_briefing",
      "engagement_briefing", "contact_briefing">>

\* Faulty compiler loop: the FLW briefing is not among the keys read
report_sections_without_flw(st) ==
    {k \in Range(report_order) \ {"flw_sustainability_briefing"} : Get(st, k, "") = "text"}

\* simple_report_compiler_node, the loop over report_order: the briefings
\* whose text goes into the report as a section, read from the State the
\* node runs on (no later node writes a briefing key)
report_sections(st) == {k \in Range(report_order) : Get(st, k, "") = "text"}

\* Tagger.run / classify_company.
\*   in.raises  classify_company raises
\*   in.tags    the classification calls return valid tags
\* The revenue prompt is built only from the company briefing; a field with
\* no prompt has no result, so its key is not written.
TaggerRun(st, in) ==
    LET content == \/ Get(st, "hq_location", "none") = "text"
                   \/ \E i \in 1..Len(report_order) : Get(st, report_order[i], "") = "text"
        brief   == Get(st, "company_brief_briefing", "") = "text"
        unknown == SetDefault(SetDefault(SetDefault(SetDefault(st,
                       "airtable_industries", "list"), "airtable_country_region", "list"),
                       "airtable_revenue_band_est", "list"), "airtable_refed_alignment", "nil")
        tagged  == Put(Put(st, "airtable_industries", "list"), "airtable_country_region", "list")
        revenue == IF brief THEN Put(tagged, "airtable_revenue_band_est", "list") ELSE tagged
        done    == Put(revenue, "airtable_refed_alignment", IF in.tags THEN "list" ELSE "nil")
    IN  IF in.raises
        THEN Result(unknown, FALSE, Ping(st, "Classifying") \o Ping(st, "Tagger Failed"), TRUE)
        ELSE Result(IF content THEN done ELSE unknown, FALSE, Ping(st, "Classifying"), FALSE)

\* Faulty upload node: a failed upload raises out of the node
UploaderRunRaising(st, in) ==
    IF in.raises THEN Result(st, TRUE, <<>>, FALSE)
    ELSE Result(st, FALSE, <<"Completed">>, FALSE)

\* Graph.airtable_upload_node: the whole body sits in one try/except.
\*   in.raises  the upload raises or reports failure; otherwise
\*              upload_to_airtable writes Research Status 'Completed'
UploaderRun(st, in) ==
    IF in.raises THEN Result(st, FALSE, <<>>, FALSE)
    ELSE Result(st, FALSE, <<"Completed">>, FALSE)

\* The run entry point the workflow registers for each node
StageRun(n, st, in) ==
    CASE n = "grounding"          -> GroundingRun(st, in)
      [] n = "company_brief_node" -> CompanyBriefRun(st, in)
      [] n = "news_signal_node"   -> NewsSignalRun(st, in)
      [] n = "flw_analyzer"       -> FLWRun(st, in)
      [] n = "contact_finder"     -> ContactFinderRun(st, in)
      [] n = "engagement_finder"  -> EngagementFinderRun(st, in)
      [] n = "collector"          -> CollectorRun(st, in)
      [] n = "curator"            -> CuratorRun(st, in)
      [] n = "enricher"           -> EnricherRun(st, in)
      [] n = "briefing"           -> BriefingRun(st, in)
      [] n = "raw_compiler"       -> RawCompilerRun(st, in)
      [] n = "tagger"             -> TaggerRun(st, in)
      [] n = "airtable_uploader"  -> UploaderRun(st, in)

\* The environment's choices for one run of a stage (see each stage above)
StageInputs(n) ==
    CASE n = "grounding"          -> [raises : BOOLEAN, crawl : {"pages", "none", "error"}]
      [] n = "company_brief_node" -> [raises : BOOLEAN, found : BOOLEAN]
      [] n = "news_signal_node"   -> [raises : BOOLEAN, found : BOOLEAN]
      [] n = "flw_analyzer"       -> [raises : BOOLEAN, hraises : BOOLEAN, found : BOOLEAN]
      [] n = "contact_finder"     -> [raises : BOOLEAN, hraises : BOOLEAN, found : BOOLEAN]
      [] n = "engagement_finder"  -> [raises : BOOLEAN, hraises : BOOLEAN, found : BOOLEAN]
      [] n = "collector"          -> [raises : BOOLEAN, infer : BOOLEAN]
      [] n = "curator"            -> [raises : BOOLEAN, kept : BOOLEAN]
      [] n = "enricher"           -> [raises : BOOLEAN]
      [] n = "briefing"           -> [raises : BOOLEAN, gen : BOOLEAN]
      [] n = "raw_compiler"       -> [raises : {FALSE}]
      [] n = "tagger"             -> [raises : BOOLEAN, tags : BOOLEAN]
      [] n = "airtable_uploader"  -> [raises : BOOLEAN]

\* ---------------------------------------------------- one whole graph run
\* The environment's choices for stage n when only "does its logic raise" is
\* varied: searches, crawl and generation calls succeed.
NominalInput(n, raises) ==
    CASE n = "grounding"          -> [raises |-> raises, crawl |-> "pages"]
      [] n = "company_brief_node" -> [raises |-> raises, found |-> TRUE]
      [] n = "news_signal_node"   -> [raises |-> raises, found |-> TRUE]
      [] n = "flw_analyzer"       -> [raises |-> raises, hraises |-> FALSE, found |-> TRUE]
      [] n = "contact_finder"     -> [raises |-> raises, hraises |-> FALSE, found |-> TRUE]
      [] n = "engagement_finder"  -> [raises |-> raises, hraises |-> FALSE, found |-> TRUE]
      [] n = "collector"          -> [raises |-> raises, infer |-> FALSE]
      [] n = "curator"            -> [raises |-> raises, kept |-> TRUE]
      [] n = "enricher"           -> [raises |-> raises]
      [] n = "briefing"           -> [raises |-> raises, gen |-> TRUE]
      [] n = "raw_compiler"       -> [raises |-> FALSE]
      [] n = "tagger"             -> [raises |-> raises, tags |-> TRUE]
      [] n = "airtable_uploader"  -> [raises |-> raises]

\* Points at which one graph run can be made to fail: the logic of a stage,
\* or the progress broadcast Graph.run makes after a node's update
FailPoints == (Stages \ {"raw_compiler"}) \cup {"ws_update"}

\* Spec injects at most one such fault into a graph run taken as a single
\* step; SpecGraph injects them freely, stage by stage.
FailInputs == {{}} \cup {{p} : p \in FailPoints}

RECURSIVE RunFrom(_, _, _, _)
\* compiled_graph.astream driven to its end, from node_sequence[i] on: each
\* node runs on the State merged so far; an exception that leaves a node, or
\* the progress broadcast after the first update, ends the run.
RunFrom(i, st, f, pings) ==
    IF i > Len(node_sequence) THEN [st |-> st, raised |-> FALSE, pings |-> pings]
    ELSE LET n == node_sequence[i]
             r == StageRun(n, st, NominalInput(n, n \in f))
         IN  IF r.esc \/ (i = 1 /\ "ws_update" \in f)
             THEN [st |-> st, raised |-> TRUE, pings |-> pings \o r.pings]
             ELSE RunFrom(i + 1, Update(st, r.st), f, pings \o r.pings)

\* Graph(...).run(thread) consumed by process_research
GraphRun(rec, url, f) == RunFrom(1, InputState(rec, url), f, <<>>)

\* --------------------------------------------------- curation, in detail
Min(a, b) == IF a <= b THEN a ELSE b

\* Scores are in hundredths: 40 stands for 0.40.
\* Curator.__init__: self.relevance_threshold = 0.4
relevance_threshold == 40

\* Curator.evaluate_documents, Boost 1: official report or filing in the title
report_boost == 20

\* Curator.curate_data: "Limit to top 30 per category"
curated_cap == 30

\* process_references_from_search_results: unique_references[:10]
reference_cap == 10

\* Number of documents the researcher's searches add to one data field
MaxRawDocs == 3

\* A URL is <<page, form>>: the page it names and the form it is written in:
\*   "plain"  lower-case scheme and host, no query, fragment or trailing slash
\*   "slash"  as plain, with a trailing slash
\*   "upper"  as plain, host in upper case
\*   "query"  as plain, with a query string
RawUrls == {<<1, "plain">>, <<1, "slash">>, <<1, "upper">>, <<2, "plain">>}

\* Tavily score and title of a found document
ScoreKinds ==
    {[score |-> 10, report |-> FALSE], [score |-> 20, report |-> TRUE],
     [score |-> 50, report |-> FALSE]}

\* Stands for a 'score' field that float() rejects (a string that is not a
\* number, None)
Malformed == 999

\* A raw document as stored under its URL (key) in a data field.  Crawled
\* pages are stored without a 'score'; only a search hit can carry a
\* malformed one.
RawDocs ==
    {[key |-> u, score |-> k.score, report |-> k.report, climate |-> FALSE,
      long |-> FALSE, source |-> src] :
        u \in RawUrls, k \in ScoreKinds, src \in {"company_website", "search"}}
    \cup {[key |-> u, score |-> Malformed, report |-> FALSE, climate |-> FALSE,
           long |-> FALSE, source |-> "search"] :
              u \in {<<1, "plain">>, <<2, "plain">>}}

\* A data field already holding curated_cap - 1 search hits, all relevant
ManyDocs ==
    [i \in 1..(curated_cap - 1) |->
        [key |-> <<100 + i, "plain">>, score |-> 45, report |-> FALSE, climate |-> FALSE,
         long |-> FALSE, source |-> "search"]]

\* Curator.curate_data, "Normalize URL": scheme and netloc lower-cased, query
\* and fragment removed, trailing slash stripped.  Faulty variant first: the
\* trailing slash is kept.
clean_url_keep_slash(u) == IF u[2] = "slash" THEN u ELSE <<u[1], "plain">>

clean_url(u) == <<u[1], "plain">>

\* references.normalize_url: query and fragment removed, trailing slash
\* stripped; the case of scheme and host is left alone
normalize_url(u) == IF u[2] \in {"slash", "query"} THEN <<u[1], "plain">> ELSE u

RECURSIVE unique_docs_last(_, _)
RECURSIVE unique_docs(_, _)
\* Faulty deduplication: a later entry replaces the one stored for its URL
unique_docs_last(data, unique) ==
    IF data = <<>> THEN unique
    ELSE LET doc  == Head(data) @@ [url |-> clean_url(Head(data).key)]
             rest == SelectSeq(unique, LAMBDA d : d.url # doc.url)
         IN  unique_docs_last(Tail(data), Append(rest, doc))

\* Curator.curate_data, "URL Normalization and Deduplication": in insertion
\* order, the first document of each clean URL is stored with that URL
unique_docs(data, unique) ==
    IF data = <<>> THEN unique
    ELSE LET doc == Head(data) @@ [url |-> clean_url(Head(data).key)]
         IN  IF \E i \in 1..Len(unique) : unique[i].url = doc.url
             THEN unique_docs(Tail(data), unique)
             ELSE unique_docs(Tail(data), Append(unique, doc))

\* Curator.evaluate_documents: authority boost, in hundredths.
\*   report   the title names an ESG / impact / sustainability report or 10-K
\*   climate  the content mentions methane or GHG emissions
\*   long     the content is longer than 1000 characters
\* The documents of the curated field carry neither keyword nor long content
\* (crawled pages are stored without a 'content' field).
climate_boost == 10

first_party_boost == 15

authority_boost(doc) ==
    (IF doc.report THEN report_boost ELSE 0)
    + (IF doc.climate THEN climate_boost ELSE 0)
    + (IF doc.source = "company_website" /\ doc.long THEN first_party_boost ELSE 0)

\* Faulty final score: the sum is not capped
final_score_uncapped(doc) == doc.score + authority_boost(doc)

final_score(doc) == Min(100, doc.score + authority_boost(doc))

\* Faulty decision: the threshold must be exceeded, not met
kept_above(doc) ==
    /\ doc.score # Malformed
    /\ final_score(doc) > relevance_threshold \/ doc.source = "company_website"

\* Curator.evaluate_documents, "Decision Logic"; float() raising ValueError
\* or TypeError on the score skips the document before anything is decided
kept(doc) ==
    /\ doc.score # Malformed
    /\ final_score(doc) >= relevance_threshold \/ doc.source = "company_website"

RECURSIVE SortedFrom(_, _)
SortedFrom(seq, scores) ==
    IF scores = {} THEN <<>>
    ELSE LET top == CHOOSE x \in scores : \A y \in scores : y <= x
         IN  SelectSeq(seq, LAMBDA e : e.overall_score = top)
                 \o SortedFrom(seq, scores \ {top})

\* Faulty ranking: the documents are left in the order they came in
unsorted(seq) == seq

\* list.sort / sorted(key=overall_score, reverse=True): stable, highest first
sorted_desc(seq) == SortedFrom(seq, {seq[i].overall_score : i \in 1..Len(seq)})

\* Faulty evaluation: the score alone decides, whatever the source
evaluate_by_score(docs) ==
    LET scored == [i \in 1..Len(docs) |-> docs[i] @@ [overall_score |-> final_score(docs[i])]]
    IN  sorted_desc(SelectSeq(scored, LAMBDA d : final_score(d) >= relevance_threshold))

\* Faulty evaluation: a score that is not a number ends the evaluation of
\* the whole list
evaluate_aborting(docs) ==
    LET scored == [i \in 1..Len(docs) |-> docs[i] @@ [overall_score |-> final_score(docs[i])]]
    IN  IF \E i \in 1..Len(docs) : docs[i].score = Malformed THEN <<>>
        ELSE sorted_desc(SelectSeq(scored, kept))

\* Curator.evaluate_documents: the documents kept, each with its final score
\* stored as overall_score, highest first (the path on which no call raises)
evaluate_documents(docs) ==
    LET scored == [i \in 1..Len(docs) |-> docs[i] @@ [overall_score |-> final_score(docs[i])]]
    IN  sorted_desc(SelectSeq(scored, kept))

\* Faulty cap: nothing is trimmed
untrimmed(items, n) == items

\* sorted_items[:n]
first_n(items, n) == SubSeq(items, 1, Min(n, Len(items)))

\* Curator.curate_data for one data field: the curated set it stores, as the
\* sequence of the dict's items
curate_field(data) ==
    LET docs      == unique_docs(data, <<>>)
        evaluated == evaluate_documents(docs)
        scored    == [i \in 1..Len(docs) |-> docs[i] @@ [overall_score |-> final_score(docs[i])]]
        relevant  == SelectSeq(scored,
                         LAMBDA d : \E i \in 1..Len(evaluated) : evaluated[i].url = d.url)
    IN  first_n(sorted_desc(relevant), curated_cap)

\* A failing 'document_kept' event is that of one of the first MaxEmit
\* documents kept
MaxEmit == 1

\* What Curator.curate_data leaves in the data field it read.  The documents
\* it works on are the objects stored in the field, not copies: the first
\* document of each clean URL has its 'url' set to the clean URL, and a
\* document evaluate_documents keeps has its score stored under 'evaluation'.
\*   emit  0, or the position among the kept documents of the one whose
\*         'document_kept' event raises: evaluation stops there
curated_in_place(data, emit) ==
    [i \in 1..Len(data) |->
        LET d      == data[i]
            First(k) == \A j \in 1..(k - 1) : clean_url(data[j].key) # clean_url(data[k].key)
            nth    == Cardinality({k \in 1..i : First(k) /\ kept(data[k])})
        IN  IF ~First(i) THEN d
            ELSE IF kept(d) /\ (emit = 0 \/ nth <= emit)
            THEN d @@ [url |-> clean_url(d.key), overall_score |-> final_score(d)]
            ELSE d @@ [url |-> clean_url(d.key)]]

\* The page whose content the extract call may fail to return
FailingPages == {1}

\* Enricher.enrich_data, docs_needing_content: a document without
\* 'raw_content'.  Crawled pages are stored with theirs; search hits have none.
needs_content(d) == d.source # "company_website"

\* Enricher.enrich_data.process_category, for one document needing content:
\* the fetched text is stored in the document under 'raw_content', or the
\* reason of the failure under 'enrichment_error'
enriched(d, failed) ==
    IF ~needs_content(d) THEN d
    ELSE IF d.key[1] \in failed THEN d @@ [enrichment_error |-> "error"]
    ELSE d @@ [raw_content |-> "fetched"]

\* What the enrichment leaves in the data field: the documents of the curated
\* set are the objects stored in the field
enriched_in_place(data, curated, failed) ==
    [i \in 1..Len(data) |->
        IF /\ \A j \in 1..(i - 1) : clean_url(data[j].key) # clean_url(data[i].key)
           /\ \E k \in 1..Len(curated) : curated[k].url = clean_url(data[i].key)
        THEN enriched(data[i], failed)
        ELSE data[i]]

\* The curated sets Curator.curate_data leaves in State, by key: one per data
\* field it iterates over.  flw_data is the only one of these fields that a
\* researcher fills; the others hold what Collector defaulted them to, {}.
written_sets(curated) ==
    [k \in {"curated_" \o legacy_fields[i] : i \in 1..Len(legacy_fields)} |->
        IF k = "curated_flw_data" THEN curated ELSE <<>>]

RECURSIVE pooled(_, _)
\* process_references_from_search_results, the loop over data_types: the
\* entries of state.get(data_type, {}) for each key, in key order
pooled(st, keys) ==
    IF keys = <<>> THEN <<>>
    ELSE (IF Head(keys) \in DOMAIN st THEN st[Head(keys)] ELSE <<>>) \o pooled(st, Tail(keys))

\* process_references_from_search_results: (url, score) of every pooled
\* entry, sorted, deduplicated by normalize_url, sorted again, the first
\* reference_cap taken
RECURSIVE unique_references(_, _)
unique_references(refs, unique) ==
    IF refs = <<>> THEN unique
    ELSE LET r == [url |-> normalize_url(Head(refs).url),
                   overall_score |-> Head(refs).overall_score]
         IN  IF \E i \in 1..Len(unique) : unique[i].url = r.url
             THEN unique_references(Tail(refs), unique)
             ELSE unique_references(Tail(refs), Append(unique, r))

\* Faulty selection: every unique reference is returned
all_references(st) ==
    sorted_desc(unique_references(sorted_desc(pooled(st, v2_curated_keys)), <<>>))

process_references(st) ==
    first_n(sorted_desc(unique_references(sorted_desc(pooled(st, v2_curated_keys)), <<>>)),
            reference_cap)

\* --------------------------------------------------- briefing, in detail
\* Briefing.create_briefings: briefing_semaphore = asyncio.Semaphore(3)
briefing_limit == 3

\* Largest number of categories given curated documents
MaxBriefingTasks == 4

\* Positions in briefing_categories
Categories == 1..Len(briefing_categories)

\* The two jobs whose briefing stages run side by side
BriefingJobs == {TracedJob, TracedJob + 1}

\* ------------------------------------------------------ status streams
\* Number of websocket clients
NumSockets == 3

Sockets == 1..NumSockets

\* WebSocketManager.__init__: defaultdict(list), no entry
NoConnections == [j \in {} |-> <<>>]

\* No accept call made on any socket yet
NoAccepts == [w \in Sockets |-> 0]

NoCall == [method |-> "none", job |-> 0, sent |-> 0, outcome |-> "none", tick |-> 0]

\* ------------------------------------------------------------- progress
\* Graph._calculate_progress: node_order
node_order ==
    <<"grounding", "company_brief_node", "collector", "curator", "enricher",
      "briefing", "raw_compiler", "tagger", "airtable_uploader", "__end__">>

\* list.index, 0-based; -1 where the code leaves base_index at -1
IndexOf(seq, x) ==
    IF \E i \in 1..Len(seq) : seq[i] = x
    THEN (CHOOSE i \in 1..Len(seq) : seq[i] = x /\ \A k \in 1..(i - 1) : seq[k] # x) - 1
    ELSE -1

\* Faulty ordinal: every researcher is given a position of its own
base_index_per_node(n) == IndexOf(node_sequence, n)

\* Graph._calculate_progress: the five researchers share the position of
\* "company_brief_node"
base_index(n) ==
    IF n \in Researchers THEN IndexOf(node_order, "company_brief_node")
    ELSE IndexOf(node_order, n)

\* Graph._calculate_progress: int(((base_index + 1) / (len(node_order) - 1)) * 100),
\* int() truncating towards zero, capped at 100; 0 for an unknown node
calculate_progress(n) ==
    IF base_index(n) # -1
    THEN Min((100 * (base_index(n) + 1)) \div (Len(node_order) - 1), 100)
    ELSE 0

\* The orders in which the five researchers of one superstep can finish
FinishOrders ==
    {p \in [1..Len(research_nodes) -> Researchers] :
        \A a, b \in 1..Len(research_nodes) : a # b => p[a] # p[b]}

\* The progress percentages one superstep of the five researchers can publish,
\* one sequence per finishing order
ResearchProgress ==
    {[i \in 1..Len(research_nodes) |-> calculate_progress(p[i])] : p \in FinishOrders}

\* ------------------------------------------------------------- variables
VARIABLES
    mongodb_on,   \* MongoDB persistence is configured (application.py, mongodb)
    sem,          \* job_semaphore._value
    pc,           \* per job: where its run_job_with_semaphore task stands
    record_id,    \* per job: the submission carried an airtable_record_id
    job_status,   \* per job: status of its job_status entry, "absent" if none
    mongo_jobs,   \* per job: status of its stored job record, "absent" if none
    log,          \* per job: registry writes and status announcements, in order
    airtable,     \* per job: Research Status values issued to the external record
    final,        \* per job: what the finished graph run left: "report" | "noreport"
    node,         \* traced run: "grounding", "research" (the fan-out), a node of
                  \*   tail_nodes: what runs next; "__end__"; "raised"
    rstat,        \* traced run: per researcher "idle" | "running" | "done" (returned),
                  \*   "failed" (its analyze raised, run returned), "escaped" (its
                  \*   analyze raised and the exception left run)
    rout,         \* traced run: per researcher the State it returned
    State,        \* traced run: the executor's merged State
    last,         \* traced run: the stage run last, whether its logic raised,
                  \*   whether it recorded a diagnostic, whether an exception left it
    ran,          \* traced run: the nodes that ran to their return
    published,    \* traced run: the progress percentages of the state_update
                  \*   events broadcast so far, in order
    raw_data,     \* one data field in detail: its documents, in insertion order
    cstep,        \* one data field in detail: "collecting" | "curated" | "enriched" |
                  \*   "aborted" (its evaluation ended on an exception)
    curated_data, \* one data field in detail: the curated set stored for it
    references,   \* one data field in detail: the references selected from it
    bdocs,        \* briefing in detail, per job: the categories (positions in
                  \*   briefing_categories) whose curated set holds documents
    bstage,       \* briefing in detail, per job: "start" | "gathering" (awaiting
                  \*   asyncio.gather) | "returned" | "escaped" (an exception left run)
    btask,        \* briefing in detail, per job and category: "none" | "waiting"
                  \*   (on briefing_semaphore) | "generating" | "stored" (text
                  \*   written) | "empty" ('' written) | "raised"
    bsem,         \* briefing in detail, per job: briefing_semaphore._value
    active_connections,
                  \* WebSocketManager: job id -> its registered sockets, in
                  \*   order; a job without an entry is not in the domain
    ws_call,      \* WebSocketManager: the last publish call made: the method,
                  \*   the job id, the number of sockets it sent to, how it
                  \*   ended, and a tick that tells calls apart
    accepts,      \* status streams: per socket, the accept calls the server made
                  \*   on its latest connection
    issued,       \* external record of one job: how many of status_pings the
                  \*   pipeline has handed to detached tasks; one more once
                  \*   the upload node has run
    flight,       \* external record: the statuses whose update_airtable_record
                  \*   call is in a worker thread and has not reached the record
    research_status,
                  \* external record: its 'Research Status' field
    doc_in,       \* scoring on its own: the document handed to the scoring
                  \*   step of evaluate_documents
    doc_eval      \* scoring on its own: the boost and final score computed
                  \*   for it and the decision taken, once done

jobvars == <<mongodb_on, sem, pc, record_id, job_status, mongo_jobs, log, airtable, final>>

graphvars == <<node, rstat, rout, State, last, ran, published>>

curvars == <<raw_data, cstep, curated_data, references>>

briefvars == <<bdocs, bstage, btask, bsem>>

wsvars == <<active_connections, ws_call, accepts>>

syncvars == <<issued, flight, research_status>>

scorevars == <<doc_in, doc_eval>>

NoDoc == [score |-> 0, report |-> FALSE, climate |-> FALSE, long |-> FALSE, source |-> "none"]

NoEval == [boost |-> 0, final |-> 0, kept |-> FALSE, done |-> FALSE]

\* No document taken for evaluation on its own
ScoreIdle == doc_in = NoDoc /\ doc_eval = NoEval

\* No status ping issued yet, the external record untouched
SyncIdle == issued = 0 /\ flight = {} /\ research_status = "none"

vars == <<mongodb_on, sem, pc, record_id, job_status, mongo_jobs, log, airtable, final,
          node, rstat, rout, State, last, ran, published,
          raw_data, cstep, curated_data, references,
          bdocs, bstage, btask, bsem, active_connections, ws_call, accepts,
          issued, flight, research_status, doc_in, doc_eval>>

NoState == [k \in {} |-> ""]

Init ==
    /\ mongodb_on \in BOOLEAN
    /\ sem = MAX_CONCURRENT_JOBS
    /\ pc = [j \in Jobs |-> "idle"]
    /\ record_id = [j \in Jobs |-> FALSE]
    /\ job_status = [j \in Jobs |-> "absent"]
    /\ mongo_jobs = [j \in Jobs |-> "absent"]
    /\ log = [j \in Jobs |-> <<>>]
    /\ airtable = [j \in Jobs |-> <<>>]
    /\ final = [j \in Jobs |-> "none"]
    /\ node = "grounding"
    /\ rstat = [r \in Researchers |-> "idle"]
    /\ rout = [r \in Researchers |-> NoState]
    /\ State = NoState
    /\ last = [node |-> "none", raises |-> FALSE, diag |-> FALSE, esc |-> FALSE]
    /\ ran = {}
    /\ published = <<>>
    /\ raw_data = <<>>
    /\ cstep = "collecting"
    /\ curated_data = <<>>
    /\ references = <<>>
    /\ bdocs = [j \in BriefingJobs |-> {}]
    /\ bstage = [j \in BriefingJobs |-> "start"]
    /\ btask = [j \in BriefingJobs |-> [c \in Categories |-> "none"]]
    /\ bsem = [j \in BriefingJobs |-> briefing_limit]
    /\ active_connections = NoConnections
    /\ ws_call = NoCall
    /\ accepts = NoAccepts
    /\ SyncIdle
    /\ ScoreIdle

Ev(channel, status) == <<channel, status>>

Logged(j, evs) == log' = [log EXCEPT ![j] = @ \o evs]

Pinged(j, pings) == airtable' = [airtable EXCEPT ![j] = @ \o pings]

\* Graph._handle_ws_update for the update of node n: the state_update event
\* carries calculate_progress(n)
Published(ns) ==
    published' = published \o [i \in 1..Len(ns) |-> calculate_progress(ns[i])]

\* Job ids are fresh uuids; the model numbers them in submission order.
NextId(j) == pc[j] = "idle" /\ \A k \in Jobs : k < j => pc[k] # "idle"

\* POST /research: research() creates the job's task and returns the job id
Research(j) ==
    /\ NextId(j)
    /\ pc' = [pc EXCEPT ![j] = "queued"]
    /\ UNCHANGED <<mongodb_on, sem, record_id, job_status, mongo_jobs, log, airtable, final>>
    /\ UNCHANGED <<graphvars, curvars, briefvars, wsvars, syncvars, scorevars>>

\* Faulty submission: the webhook marks the external record 'In Progress'
\* itself instead of 'Queued'
WebhookMarksRunning(j, rec) ==
    /\ NextId(j)
    /\ pc' = [pc EXCEPT ![j] = "queued"]
    /\ record_id' = [record_id EXCEPT ![j] = rec]
    /\ Pinged(j, IF rec THEN <<"In Progress">> ELSE <<>>)
    /\ UNCHANGED <<mongodb_on, sem, job_status, mongo_jobs, log, final>>
    /\ UNCHANGED <<graphvars, curvars, briefvars, wsvars, syncvars, scorevars>>

\* POST /webhook/start-research: start_research_webhook(); with a record id
\* it first issues the detached 'Queued' ping
StartResearchWebhook(j, rec) ==
    /\ NextId(j)
    /\ pc' = [pc EXCEPT ![j] = "queued"]
    /\ record_id' = [record_id EXCEPT ![j] = rec]
    /\ Pinged(j, IF rec THEN <<"Queued">> ELSE <<>>)
    /\ UNCHANGED <<mongodb_on, sem, job_status, mongo_jobs, log, final>>
    /\ UNCHANGED <<graphvars, curvars, briefvars, wsvars, syncvars, scorevars>>

\* Faulty admission: the job enters without waiting for a free slot
AcquireNoWait(j) ==
    /\ pc[j] = "queued"
    /\ sem' = sem - 1
    /\ pc' = [pc EXCEPT ![j] = "acquired"]
    /\ UNCHANGED <<mongodb_on, record_id, job_status, mongo_jobs, log, airtable, final>>
    /\ UNCHANGED <<graphvars, curvars, briefvars, wsvars, syncvars, scorevars>>

\* run_job_with_semaphore: await job_semaphore.acquire()
Acquire(j) ==
    /\ pc[j] = "queued"
    /\ sem > 0
    /\ sem' = sem - 1
    /\ pc' = [pc EXCEPT ![j] = "acquired"]
    /\ UNCHANGED <<mongodb_on, record_id, job_status, mongo_jobs, log, airtable, final>>
    /\ UNCHANGED <<graphvars, curvars, briefvars, wsvars, syncvars, scorevars>>

\* process_research: mongodb.create_job, then the one-second sleep
CreateJob(j) ==
    /\ pc[j] = "acquired"
    /\ pc' = [pc EXCEPT ![j] = "starting"]
    /\ mongo_jobs' = [mongo_jobs EXCEPT ![j] = IF mongodb_on THEN "pending" ELSE @]
    /\ Logged(j, IF mongodb_on THEN <<Ev("mongo", "pending")>> ELSE <<>>)
    /\ UNCHANGED <<mongodb_on, sem, record_id, job_status, airtable, final>>
    /\ UNCHANGED <<graphvars, curvars, briefvars, wsvars, syncvars, scorevars>>

\* process_research: send_status_update(status="processing"); a broadcast
\* that raises takes the task to the except branch
StartResearch(j, raises) ==
    /\ pc[j] = "starting"
    /\ pc' = [pc EXCEPT ![j] = IF raises THEN "handler" ELSE "graph"]
    /\ Logged(j, IF raises THEN <<>> ELSE <<Ev("ws", "processing")>>)
    /\ UNCHANGED <<mongodb_on, sem, record_id, job_status, mongo_jobs, airtable, final>>
    /\ UNCHANGED <<graphvars, curvars, briefvars, wsvars, syncvars, scorevars>>

Outcome(st) == IF Get(st, "report", "") = "text" THEN "report" ELSE "noreport"

\* GraphRun, tabulated over its arguments
GraphRuns == [rec \in BOOLEAN, url \in BOOLEAN, f \in FailInputs |-> GraphRun(rec, url, f)]

\* process_research: `async for s in graph.run(...)`, the graph run taken as
\* one step
RunGraph(j, url, f) ==
    /\ pc[j] = "graph"
    /\ LET g == GraphRuns[record_id[j], url, f]
       IN  /\ Pinged(j, g.pings)
           /\ pc' = [pc EXCEPT ![j] = IF g.raised THEN "handler" ELSE "conclude"]
           /\ final' = [final EXCEPT ![j] = IF g.raised THEN @ ELSE Outcome(g.st)]
    /\ UNCHANGED <<mongodb_on, sem, record_id, job_status, mongo_jobs, log>>
    /\ UNCHANGED <<graphvars, curvars, briefvars, wsvars, syncvars, scorevars>>

\* process_research after the graph run: with a report the job is recorded
\* completed (job_status, MongoDB) and then announced; without one it is only
\* announced failed.  The announcement raising takes the task to the except
\* branch.
Conclude(j, raises) ==
    /\ pc[j] = "conclude"
    /\ pc' = [pc EXCEPT ![j] = IF raises THEN "handler" ELSE "returned"]
    /\ IF final[j] = "report"
       THEN /\ job_status' = [job_status EXCEPT ![j] = "completed"]
            /\ mongo_jobs' = [mongo_jobs EXCEPT ![j] = IF mongodb_on THEN "completed" ELSE @]
            /\ Logged(j, <<Ev("job_status", "completed")>>
                         \o (IF mongodb_on THEN <<Ev("mongo", "completed")>> ELSE <<>>)
                         \o (IF raises THEN <<>> ELSE <<Ev("ws", "completed")>>))
       ELSE /\ Logged(j, IF raises THEN <<>> ELSE <<Ev("ws", "failed")>>)
            /\ UNCHANGED <<job_status, mongo_jobs>>
    /\ UNCHANGED <<mongodb_on, sem, record_id, airtable, final>>
    /\ UNCHANGED <<graphvars, curvars, briefvars, wsvars, syncvars, scorevars>>

\* process_research, except branch: announce failed, then mongodb.update_job;
\* when the announcement raises, the exception leaves process_research before
\* update_job
Handler(j, raises) ==
    /\ pc[j] = "handler"
    /\ pc' = [pc EXCEPT ![j] = IF raises THEN "raised" ELSE "returned"]
    /\ mongo_jobs' = [mongo_jobs EXCEPT ![j] = IF mongodb_on /\ ~raises THEN "failed" ELSE @]
    /\ Logged(j, IF raises THEN <<>>
                 ELSE <<Ev("ws", "failed")>>
                      \o (IF mongodb_on THEN <<Ev("mongo", "failed")>> ELSE <<>>))
    /\ UNCHANGED <<mongodb_on, sem, record_id, job_status, airtable, final>>
    /\ UNCHANGED <<graphvars, curvars, briefvars, wsvars, syncvars, scorevars>>

\* Faulty release: the slot is given back only when process_research returned
\* (a release written after the call instead of in a finally clause)
ReleaseOnReturn(j) ==
    /\ pc[j] \in {"returned", "raised"}
    /\ sem' = IF pc[j] = "returned" THEN sem + 1 ELSE sem
    /\ pc' = [pc EXCEPT ![j] = "finished"]
    /\ UNCHANGED <<mongodb_on, record_id, job_status, mongo_jobs, log, airtable, final>>
    /\ UNCHANGED <<graphvars, curvars, briefvars, wsvars, syncvars, scorevars>>

\* run_job_with_semaphore: process_research returned, or raised and the
\* except clause logged it; finally: job_semaphore.release()
Release(j) ==
    /\ pc[j] \in {"returned", "raised"}
    /\ sem' = sem + 1
    /\ pc' = [pc EXCEPT ![j] = "finished"]
    /\ UNCHANGED <<mongodb_on, record_id, job_status, mongo_jobs, log, airtable, final>>
    /\ UNCHANGED <<graphvars, curvars, briefvars, wsvars, syncvars, scorevars>>

\* Spec: the jobs are submitted through POST /research
Next ==
    \E j \in Jobs :
        \/ Research(j)
        \/ Acquire(j)
        \/ CreateJob(j)
        \/ \E raises \in BOOLEAN : StartResearch(j, raises)
        \/ \E url \in BOOLEAN, f \in FailInputs : RunGraph(j, url, f)
        \/ \E raises \in BOOLEAN : Conclude(j, raises)
        \/ \E raises \in BOOLEAN : Handler(j, raises)
        \/ Release(j)

Spec == Init /\ [][Next]_vars

\* Scheduling of the job tasks: the event loop runs every task that can take
\* a step (weak fairness on each step of run_job_with_semaphore and
\* process_research, the graph run assumed to end), and asyncio.Semaphore
\* hands a freed slot to its waiters first come, first served, so a waiting
\* job is not passed over forever (strong fairness on Acquire).
\* A job admitted is at one place of its task at a time, so its next step is
\* taken as one action.
TaskStep(j) ==
    \/ CreateJob(j)
    \/ \E raises \in BOOLEAN : StartResearch(j, raises)
    \/ \E url \in BOOLEAN, f \in FailInputs : RunGraph(j, url, f)
    \/ \E raises \in BOOLEAN : Conclude(j, raises)
    \/ \E raises \in BOOLEAN : Handler(j, raises)
    \/ Release(j)

Fairness == \A j \in Jobs : SF_vars(Acquire(j)) /\ WF_vars(TaskStep(j))

\* SpecFair: Spec under fair scheduling
SpecFair == Init /\ [][Next]_vars /\ Fairness

\* ------------------------------------------- the graph run, stage by stage
\* The job's task is inside `async for s in graph.run(...)`
InGraph(j) == j = TracedJob /\ pc[j] = "graph"

\* graph.run raises into process_research, which goes to its except branch
GraphRaised(j) ==
    /\ node' = "raised"
    /\ pc' = [pc EXCEPT ![j] = "handler"]
    /\ UNCHANGED final

Noted(n, in, r) ==
    last' = [node |-> n, raises |-> in.raises, diag |-> r.diag, esc |-> r.esc]

\* Entry point "grounding" on the initial state; its update is published
\* (Graph._handle_ws_update, pub: that broadcast raises) and the five
\* researchers are started on the State it leaves.
StepGrounding(j, url, in, pub) ==
    /\ InGraph(j)
    /\ node = "grounding"
    /\ LET st0 == InputState(record_id[j], url)
           r   == StageRun("grounding", st0, in)
       IN  /\ Pinged(j, r.pings)
           /\ Noted("grounding", in, r)
           /\ IF r.esc
              THEN /\ GraphRaised(j)
                   /\ State' = st0
                   /\ UNCHANGED <<rstat, ran, published>>
              ELSE /\ State' = Update(st0, r.st)
                   /\ ran' = ran \cup {"grounding"}
                   /\ IF pub
                      THEN GraphRaised(j) /\ UNCHANGED <<rstat, published>>
                      ELSE /\ node' = "research"
                           /\ rstat' = [x \in Researchers |-> "running"]
                           /\ Published(<<"grounding">>)
                           /\ UNCHANGED <<pc, final>>
    /\ UNCHANGED <<curvars, briefvars, wsvars, syncvars, scorevars>>
    /\ UNCHANGED <<mongodb_on, sem, record_id, job_status, mongo_jobs, log, rout>>

\* One researcher of the fan-out runs to its end on the State grounding left.
\* An exception that leaves it ends the graph run; its siblings are abandoned.
StepResearcher(j, r, in) ==
    /\ InGraph(j)
    /\ node = "research"
    /\ rstat[r] = "running"
    /\ LET res == StageRun(r, State, in)
       IN  /\ Noted(r, in, res)
           /\ IF res.esc
              THEN /\ GraphRaised(j)
                   /\ rstat' = [rstat EXCEPT ![r] = "escaped"]
                   /\ UNCHANGED <<rout, ran>>
              ELSE /\ rstat' = [rstat EXCEPT ![r] = IF in.raises THEN "failed" ELSE "done"]
                   /\ rout' = [rout EXCEPT ![r] = res.st]
                   /\ ran' = ran \cup {r}
                   /\ UNCHANGED <<node, pc, final>>
    /\ UNCHANGED <<curvars, briefvars, wsvars, syncvars, scorevars>>
    /\ UNCHANGED <<mongodb_on, sem, record_id, job_status, mongo_jobs, log, airtable, State,
                   published>>

RECURSIVE Merged(_, _)
\* The executor applies the updates of one superstep to the State
Merged(st, i) ==
    IF i > Len(research_nodes) THEN st
    ELSE Merged(Update(st, rout[research_nodes[i]]), i + 1)

\* Faulty fan-in: collector is started as soon as one researcher has returned
FanInEarly(j, pub) ==
    /\ InGraph(j)
    /\ node = "research"
    /\ \E r \in Researchers : rstat[r] \in {"done", "failed"}
    /\ State' = Merged(State, 1)
    /\ IF pub THEN GraphRaised(j) /\ UNCHANGED published
       ELSE /\ node' = "collector"
            /\ \E ps \in ResearchProgress : published' = published \o ps
            /\ UNCHANGED <<pc, final>>
    /\ UNCHANGED <<curvars, briefvars, wsvars, syncvars, scorevars>>
    /\ UNCHANGED <<mongodb_on, sem, record_id, job_status, mongo_jobs, log, airtable,
                   rstat, rout, last, ran>>

\* The edges researcher -> collector: the superstep of the five researchers
\* is over, their updates are merged and published in the order the
\* researchers finished, collector is next.
FanIn(j, pub) ==
    /\ InGraph(j)
    /\ node = "research"
    /\ \A r \in Researchers : rstat[r] \in {"done", "failed"}
    /\ State' = Merged(State, 1)
    /\ IF pub THEN GraphRaised(j) /\ UNCHANGED published
       ELSE /\ node' = "collector"
            /\ \E ps \in ResearchProgress : published' = published \o ps
            /\ UNCHANGED <<pc, final>>
    /\ UNCHANGED <<curvars, briefvars, wsvars, syncvars, scorevars>>
    /\ UNCHANGED <<mongodb_on, sem, record_id, job_status, mongo_jobs, log, airtable,
                   rstat, rout, last, ran>>

\* Faulty wiring: the edge out of collector bypasses curator
SuccessorBypass(n) ==
    CASE n = "collector"         -> "enricher"
      [] n = "curator"           -> "enricher"
      [] n = "enricher"          -> "briefing"
      [] n = "briefing"          -> "raw_compiler"
      [] n = "raw_compiler"      -> "tagger"
      [] n = "tagger"            -> "airtable_uploader"
      [] n = "airtable_uploader" -> "__end__"

\* Graph._build_workflow: the edges after collector, and the finish point
Successor(n) ==
    CASE n = "collector"         -> "curator"
      [] n = "curator"           -> "enricher"
      [] n = "enricher"          -> "briefing"
      [] n = "briefing"          -> "raw_compiler"
      [] n = "raw_compiler"      -> "tagger"
      [] n = "tagger"            -> "airtable_uploader"
      [] n = "airtable_uploader" -> "__end__"

TailNodes == {tail_nodes[i] : i \in 1..Len(tail_nodes)}

\* A node after the fan-in runs on the merged State; its update is merged and
\* published.  After the finish point the stream ends and process_research
\* looks for the report.
StepTail(j, in, pub) ==
    /\ InGraph(j)
    /\ node \in TailNodes
    /\ in \in StageInputs(node)
    /\ LET r  == StageRun(node, State, in)
           st == Update(State, r.st)
       IN  /\ Pinged(j, r.pings)
           /\ Noted(node, in, r)
           /\ IF r.esc
              THEN GraphRaised(j) /\ UNCHANGED <<State, ran, published>>
              ELSE /\ State' = st
                   /\ ran' = ran \cup {node}
                   /\ IF pub THEN GraphRaised(j) /\ UNCHANGED published
                      ELSE /\ node' = Successor(node)
                           /\ Published(<<node>>)
                           /\ IF node = "airtable_uploader"
                              THEN /\ pc' = [pc EXCEPT ![j] = "conclude"]
                                   /\ final' = [final EXCEPT ![j] = Outcome(st)]
                              ELSE UNCHANGED <<pc, final>>
    /\ UNCHANGED <<curvars, briefvars, wsvars, syncvars, scorevars>>
    /\ UNCHANGED <<mongodb_on, sem, record_id, job_status, mongo_jobs, log, rstat, rout>>

AllInputs == UNION {StageInputs(n) : n \in Stages}

\* SpecGraph: one job, submitted either way, its graph run traced
NextGraph ==
    \E j \in {TracedJob} :
        \/ Research(j)
        \/ \E rec \in BOOLEAN : StartResearchWebhook(j, rec)
        \/ Acquire(j)
        \/ CreateJob(j)
        \/ \E raises \in BOOLEAN : StartResearch(j, raises)
        \/ \E url \in BOOLEAN, in \in StageInputs("grounding"), pub \in BOOLEAN :
               StepGrounding(j, url, in, pub)
        \/ \E r \in Researchers : \E in \in StageInputs(r) : StepResearcher(j, r, in)
        \/ \E pub \in BOOLEAN : FanIn(j, pub)
        \/ \E in \in AllInputs, pub \in BOOLEAN : StepTail(j, in, pub)
        \/ \E raises \in BOOLEAN : Conclude(j, raises)
        \/ \E raises \in BOOLEAN : Handler(j, raises)
        \/ Release(j)

SpecGraph == Init /\ [][NextGraph]_vars

\* ------------------------------------------------- curation of one field
\* A researcher stores a found document under its URL; a URL already stored
\* is not stored a second time (the dict keeps one value per key).
CollectDocument(d) ==
    /\ cstep = "collecting"
    /\ Len(SelectSeq(raw_data, LAMBDA x : x \in RawDocs)) < MaxRawDocs
    /\ \A i \in 1..Len(raw_data) : raw_data[i].key # d.key
    /\ raw_data' = Append(raw_data, d)
    /\ UNCHANGED <<cstep, curated_data, references>>
    /\ UNCHANGED <<jobvars, graphvars, briefvars, wsvars, syncvars, scorevars>>

\* Curator.curate_data on the field, with the reference selection it ends in.
\* evaluate_documents announces every document it keeps to the job's status
\* stream inside its try block; an exception from that call other than
\* ValueError / TypeError ends the evaluation with [] and the field's curated
\* set is stored empty.
\*   emit  0: every event is sent, or nobody is subscribed; n > 0: the event
\*         for the n-th kept document raises
CurateData(emit) ==
    /\ cstep = "collecting"
    /\ emit <= Len(SelectSeq(unique_docs(raw_data, <<>>), kept))
    /\ cstep' = IF emit = 0 THEN "curated" ELSE "aborted"
    /\ curated_data' = IF emit = 0 THEN curate_field(raw_data) ELSE <<>>
    /\ references' = process_references(written_sets(curated_data'))
    /\ raw_data' = curated_in_place(raw_data, emit)
    /\ UNCHANGED <<jobvars, graphvars, briefvars, wsvars, syncvars, scorevars>>

InitCurate ==
    /\ mongodb_on = FALSE
    /\ sem = MAX_CONCURRENT_JOBS
    /\ pc = [j \in Jobs |-> "idle"]
    /\ record_id = [j \in Jobs |-> FALSE]
    /\ job_status = [j \in Jobs |-> "absent"]
    /\ mongo_jobs = [j \in Jobs |-> "absent"]
    /\ log = [j \in Jobs |-> <<>>]
    /\ airtable = [j \in Jobs |-> <<>>]
    /\ final = [j \in Jobs |-> "none"]
    /\ node = "grounding"
    /\ rstat = [r \in Researchers |-> "idle"]
    /\ rout = [r \in Researchers |-> NoState]
    /\ State = NoState
    /\ last = [node |-> "none", raises |-> FALSE, diag |-> FALSE, esc |-> FALSE]
    /\ ran = {}
    /\ published = <<>>
    /\ raw_data \in {<<>>, ManyDocs}
    /\ cstep = "collecting"
    /\ curated_data = <<>>
    /\ references = <<>>
    /\ bdocs = [j \in BriefingJobs |-> {}]
    /\ bstage = [j \in BriefingJobs |-> "start"]
    /\ btask = [j \in BriefingJobs |-> [c \in Categories |-> "none"]]
    /\ bsem = [j \in BriefingJobs |-> briefing_limit]
    /\ active_connections = NoConnections
    /\ ws_call = NoCall
    /\ accepts = NoAccepts
    /\ SyncIdle
    /\ ScoreIdle

\* Enricher.enrich_data for the curated set of the field: every document
\* needing content is fetched and updated, and the set is stored again under
\* its key.
\*   failed  the pages whose fetch returns nothing or an error
\*   raises  fetch_raw_content or a status update raises: the category is
\*           left as it was
EnrichData(failed, raises) ==
    /\ cstep = "curated"
    /\ cstep' = "enriched"
    /\ curated_data' = IF raises THEN curated_data
                       ELSE [i \in 1..Len(curated_data) |-> enriched(curated_data[i], failed)]
    /\ raw_data' = IF raises THEN raw_data
                   ELSE enriched_in_place(raw_data, curated_data, failed)
    /\ UNCHANGED references
    /\ UNCHANGED <<jobvars, graphvars, briefvars, wsvars, syncvars, scorevars>>

NextCurate ==
    \/ \E d \in RawDocs : CollectDocument(d)
    \/ \E emit \in 0..MaxEmit : CurateData(emit)

\* SpecCurate: one data field filled and curated
SpecCurate == InitCurate /\ [][NextCurate]_vars

InitEnrich == InitCurate /\ raw_data = <<>>

NextEnrich ==
    \/ \E d \in RawDocs : CollectDocument(d)
    \/ \E emit \in 0..MaxEmit : CurateData(emit)
    \/ \E failed \in SUBSET FailingPages, raises \in BOOLEAN : EnrichData(failed, raises)

\* SpecEnrich: one data field filled from nothing, curated and enriched
SpecEnrich == InitEnrich /\ [][NextEnrich]_vars

\* ------------------------------------------------------ briefing of jobs
Pending(j) == {c \in Categories : btask[j][c] \in {"waiting", "generating"}}

\* Briefing.run / create_briefings up to asyncio.gather: the categories
\* without documents get '' (no task), a task is created for each of the
\* others, all on one new semaphore.  The opening status broadcast raising
\* (raises) takes run to its handler, whose AIMessage is a name briefing.py
\* never imports: the NameError leaves run.
CreateBriefings(j, raises) ==
    /\ bstage[j] = "start"
    /\ IF raises
       THEN /\ bstage' = [bstage EXCEPT ![j] = "escaped"]
            /\ UNCHANGED <<btask, bsem>>
       ELSE /\ btask' = [btask EXCEPT ![j] =
                            [c \in Categories |-> IF c \in bdocs[j] THEN "waiting" ELSE "none"]]
            /\ bsem' = [bsem EXCEPT ![j] = briefing_limit]
            /\ bstage' = [bstage EXCEPT ![j] = IF bdocs[j] = {} THEN "returned" ELSE "gathering"]
    /\ UNCHANGED bdocs
    /\ UNCHANGED <<jobvars, graphvars, curvars, wsvars, syncvars, scorevars>>

\* Faulty limiter: a task enters without a free permit
EnterUnlimited(j, c) ==
    /\ btask[j][c] = "waiting"
    /\ \A d \in Categories : d < c => btask[j][d] # "waiting"
    /\ btask' = [btask EXCEPT ![j][c] = "generating"]
    /\ bsem' = [bsem EXCEPT ![j] = @ - 1]
    /\ UNCHANGED <<bdocs, bstage>>
    /\ UNCHANGED <<jobvars, graphvars, curvars, wsvars, syncvars, scorevars>>

\* process_briefing: `async with briefing_semaphore`, entered in task order
\* (asyncio.Semaphore serves its waiters first come, first served)
Enter(j, c) ==
    /\ btask[j][c] = "waiting"
    /\ \A d \in Categories : d < c => btask[j][d] # "waiting"
    /\ bsem[j] > 0
    /\ btask' = [btask EXCEPT ![j][c] = "generating"]
    /\ bsem' = [bsem EXCEPT ![j] = @ - 1]
    /\ UNCHANGED <<bdocs, bstage>>
    /\ UNCHANGED <<jobvars, graphvars, curvars, wsvars, syncvars, scorevars>>

\* Faulty wait: the run goes on when the first task ends
GatheredFirst(j, c, out) ==
    IF bstage[j] # "gathering" THEN bstage[j]
    ELSE IF out = "raised" THEN "escaped"
    ELSE "returned"

\* What the end of one task does to the run awaiting asyncio.gather: a task
\* that raised makes gather raise at once, run's handler fails as above and
\* the exception leaves run; the last task to end lets create_briefings
\* store 'briefings' and return.
Gathered(j, c, out) ==
    IF bstage[j] # "gathering" THEN bstage[j]
    ELSE IF out = "raised" THEN "escaped"
    ELSE IF Pending(j) = {c} THEN "returned"
    ELSE "gathering"

\* process_briefing from generate_category_briefing's return on: out is
\*   "stored"  the model returned text, written under the briefing key
\*   "empty"   the call raised or returned nothing; generate_category_briefing
\*             catches it and '' is written under the briefing key
\*   "raised"  a status broadcast inside generate_category_briefing raised,
\*             nothing is written; `async with` still releases the permit
\* Tasks are not cancelled when gather raises: they run on to their end.
Leave(j, c, out) ==
    /\ btask[j][c] = "generating"
    /\ btask' = [btask EXCEPT ![j][c] = out]
    /\ bsem' = [bsem EXCEPT ![j] = @ + 1]
    /\ bstage' = [bstage EXCEPT ![j] = Gathered(j, c, out)]
    /\ UNCHANGED bdocs
    /\ UNCHANGED <<jobvars, graphvars, curvars, wsvars, syncvars, scorevars>>

InitBrief ==
    /\ mongodb_on = FALSE
    /\ sem = MAX_CONCURRENT_JOBS
    /\ pc = [j \in Jobs |-> "idle"]
    /\ record_id = [j \in Jobs |-> FALSE]
    /\ job_status = [j \in Jobs |-> "absent"]
    /\ mongo_jobs = [j \in Jobs |-> "absent"]
    /\ log = [j \in Jobs |-> <<>>]
    /\ airtable = [j \in Jobs |-> <<>>]
    /\ final = [j \in Jobs |-> "none"]
    /\ node = "grounding"
    /\ rstat = [r \in Researchers |-> "idle"]
    /\ rout = [r \in Researchers |-> NoState]
    /\ State = NoState
    /\ last = [node |-> "none", raises |-> FALSE, diag |-> FALSE, esc |-> FALSE]
    /\ ran = {}
    /\ published = <<>>
    /\ raw_data = <<>>
    /\ cstep = "collecting"
    /\ curated_data = <<>>
    /\ references = <<>>
    /\ bdocs \in [BriefingJobs -> {1..k : k \in 0..Min(MaxBriefingTasks, Len(briefing_categories))}]
    /\ bstage = [j \in BriefingJobs |-> "start"]
    /\ btask = [j \in BriefingJobs |-> [c \in Categories |-> "none"]]
    /\ bsem = [j \in BriefingJobs |-> briefing_limit]
    /\ active_connections = NoConnections
    /\ ws_call = NoCall
    /\ accepts = NoAccepts
    /\ SyncIdle
    /\ ScoreIdle

NextBrief ==
    \E j \in BriefingJobs :
        \/ \E raises \in BOOLEAN : CreateBriefings(j, raises)
        \/ \E c \in Categories : Enter(j, c)
        \/ \E c \in Categories, out \in {"stored", "empty", "raised"} : Leave(j, c, out)

\* SpecBrief: the briefing stages of two jobs, task by task
SpecBrief == InitBrief /\ [][NextBrief]_vars

\* ---------------------------------------------------- WebSocketManager
Registered(j) == IF j \in DOMAIN active_connections THEN active_connections[j] ELSE <<>>

\* WebSocketManager.disconnect: self.active_connections[job_id] creates the
\* entry when there is none; the socket is removed, and an entry left empty
\* is deleted
Without(conns, w, j) ==
    LET left == SelectSeq(IF j \in DOMAIN conns THEN conns[j] ELSE <<>>, LAMBDA x : x # w)
    IN  IF left = <<>> THEN [k \in (DOMAIN conns) \ {j} |-> conns[k]]
        ELSE [k \in (DOMAIN conns) \cup {j} |-> IF k = j THEN left ELSE conns[k]]

\* websocket_endpoint up to its receive loop: the endpoint accepts the
\* socket, WebSocketManager.connect accepts it again and appends it.
\*   ok  the second accept returns; when it raises, nothing is appended and
\*       the endpoint's handler calls disconnect
WebsocketEndpoint(w, j, ok) ==
    /\ \A k \in DOMAIN active_connections :
           \A i \in 1..Len(active_connections[k]) : active_connections[k][i] # w
    /\ active_connections' =
           IF ok THEN [k \in (DOMAIN active_connections) \cup {j} |->
                          IF k = j THEN Append(Registered(j), w) ELSE active_connections[k]]
           ELSE Without(active_connections, w, j)
    /\ accepts' = [accepts EXCEPT ![w] = 2]
    /\ UNCHANGED ws_call
    /\ UNCHANGED <<jobvars, graphvars, curvars, briefvars, syncvars, scorevars>>

\* websocket_endpoint, receive loop: the client goes away, receive_text
\* raises WebSocketDisconnect and the endpoint calls disconnect
ClientDisconnects(w, j) ==
    /\ \E i \in 1..Len(Registered(j)) : Registered(j)[i] = w
    /\ active_connections' = Without(active_connections, w, j)
    /\ UNCHANGED <<ws_call, accepts>>
    /\ UNCHANGED <<jobvars, graphvars, curvars, briefvars, syncvars, scorevars>>

Called(method, j, outcome) ==
    ws_call' = [method |-> method, job |-> j, sent |-> Len(Registered(j)),
                outcome |-> outcome, tick |-> 1 - ws_call.tick]

\* Faulty lookup: the job's list is read with self.active_connections[job_id]
\* before the membership test, which creates an empty entry
PublishIndexing(method, j, gone, raises) ==
    /\ gone \subseteq Range(Registered(j))
    /\ raises => j \in DOMAIN active_connections
    /\ IF j \notin DOMAIN active_connections
       THEN /\ Called(method, j, "returned")
            /\ active_connections' =
                   [k \in (DOMAIN active_connections) \cup {j} |->
                       IF k = j THEN <<>> ELSE active_connections[k]]
       ELSE IF raises
       THEN Called(method, j, "raised") /\ UNCHANGED active_connections
       ELSE /\ Called(method, j, "returned")
            /\ active_connections' =
                   IF \A i \in 1..Len(active_connections[j]) : active_connections[j][i] \in gone
                   THEN [k \in (DOMAIN active_connections) \ {j} |-> active_connections[k]]
                   ELSE [active_connections EXCEPT
                            ![j] = SelectSeq(@, LAMBDA x : x \notin gone)]
    /\ UNCHANGED accepts
    /\ UNCHANGED <<jobvars, graphvars, curvars, briefvars, syncvars, scorevars>>

\* WebSocketManager.broadcast_to_job, called directly or through
\* send_status_update (which only builds the update dict).
\*   gone    the sockets whose send raises WebSocketDisconnect or
\*           RuntimeError: they are disconnected after the sends
\*   raises  a send raises something else: gather re-raises it
Publish(method, j, gone, raises) ==
    /\ gone \subseteq Range(Registered(j))
    /\ raises => j \in DOMAIN active_connections
    /\ IF j \notin DOMAIN active_connections
       THEN Called(method, j, "returned") /\ UNCHANGED active_connections
       ELSE IF raises
       THEN Called(method, j, "raised") /\ UNCHANGED active_connections
       ELSE /\ Called(method, j, "returned")
            /\ active_connections' =
                   IF \A i \in 1..Len(active_connections[j]) : active_connections[j][i] \in gone
                   THEN [k \in (DOMAIN active_connections) \ {j} |-> active_connections[k]]
                   ELSE [active_connections EXCEPT
                            ![j] = SelectSeq(@, LAMBDA x : x \notin gone)]
    /\ UNCHANGED accepts
    /\ UNCHANGED <<jobvars, graphvars, curvars, briefvars, syncvars, scorevars>>

InitWs ==
    /\ mongodb_on = FALSE
    /\ sem = MAX_CONCURRENT_JOBS
    /\ pc = [j \in Jobs |-> "idle"]
    /\ record_id = [j \in Jobs |-> FALSE]
    /\ job_status = [j \in Jobs |-> "absent"]
    /\ mongo_jobs = [j \in Jobs |-> "absent"]
    /\ log = [j \in Jobs |-> <<>>]
    /\ airtable = [j \in Jobs |-> <<>>]
    /\ final = [j \in Jobs |-> "none"]
    /\ node = "grounding"
    /\ rstat = [r \in Researchers |-> "idle"]
    /\ rout = [r \in Researchers |-> NoState]
    /\ State = NoState
    /\ last = [node |-> "none", raises |-> FALSE, diag |-> FALSE, esc |-> FALSE]
    /\ ran = {}
    /\ published = <<>>
    /\ raw_data = <<>>
    /\ cstep = "collecting"
    /\ curated_data = <<>>
    /\ references = <<>>
    /\ bdocs = [j \in BriefingJobs |-> {}]
    /\ bstage = [j \in BriefingJobs |-> "start"]
    /\ btask = [j \in BriefingJobs |-> [c \in Categories |-> "none"]]
    /\ bsem = [j \in BriefingJobs |-> briefing_limit]
    /\ active_connections = NoConnections
    /\ ws_call = NoCall
    /\ accepts = NoAccepts
    /\ SyncIdle
    /\ ScoreIdle

NextWs ==
    \E j \in Jobs :
        \/ \E w \in Sockets, ok \in BOOLEAN : WebsocketEndpoint(w, j, ok)
        \/ \E w \in Sockets : ClientDisconnects(w, j)
        \/ \E method \in {"broadcast_to_job", "send_status_update"},
              gone \in SUBSET Sockets, raises \in BOOLEAN : Publish(method, j, gone, raises)

\* SpecWs: clients connecting to and leaving the status streams of the jobs,
\* and updates published to them
SpecWs == InitWs /\ [][NextWs]_vars

\* ------------------------------------------- the external record's status
\* The statuses a run without a failing stage issues for a job submitted
\* with a record id, in the order the pipeline issues them: the webhook, then
\* grounding, collector, curator, enricher, briefing and tagger
status_pings ==
    <<"Queued", "In Progress", "Collecting Data", "Curating Documents",
      "Enriching Content", "Generating Briefings", "Classifying">>

\* asyncio.create_task(_update_airtable_status(record_id, text)): the stage
\* goes on without awaiting the task, whose helper hands the blocking call to
\* a worker thread (asyncio.to_thread)
DetachPing ==
    /\ issued < Len(status_pings)
    /\ issued' = issued + 1
    /\ flight' = flight \cup {status_pings[issued + 1]}
    /\ UNCHANGED research_status
    /\ UNCHANGED <<jobvars, graphvars, curvars, briefvars, wsvars, scorevars>>

\* A worker thread's update_airtable_record call reaches the record
PingApplied(s) ==
    /\ s \in flight
    /\ flight' = flight \ {s}
    /\ research_status' = s
    /\ UNCHANGED issued
    /\ UNCHANGED <<jobvars, graphvars, curvars, briefvars, wsvars, scorevars>>

\* A worker thread's call fails; the helper logs the exception
PingFailed(s) ==
    /\ s \in flight
    /\ flight' = flight \ {s}
    /\ UNCHANGED <<issued, research_status>>
    /\ UNCHANGED <<jobvars, graphvars, curvars, briefvars, wsvars, scorevars>>

\* Graph.airtable_upload_node: upload_to_airtable is called in place, after
\* tagger; when it succeeds the record's fields, 'Research Status':
\* 'Completed' among them, are written before it returns.
UploadToAirtable(ok) ==
    /\ issued = Len(status_pings)
    /\ issued' = issued + 1
    /\ research_status' = IF ok THEN "Completed" ELSE research_status
    /\ UNCHANGED flight
    /\ UNCHANGED <<jobvars, graphvars, curvars, briefvars, wsvars, scorevars>>

NextSync ==
    \/ DetachPing
    \/ \E s \in Range(status_pings) : PingApplied(s)
    \/ \E s \in Range(status_pings) : PingFailed(s)
    \/ \E ok \in BOOLEAN : UploadToAirtable(ok)

\* SpecSync: the status writes one job makes to its external record
SpecSync == InitWs /\ [][NextSync]_vars

\* ------------------------------------------------- scoring on its own
\* Search scores, in hundredths
Scores == {0, 25, 39, 40, 55, 56, 70, 85, 100}

\* The documents the scoring step is tried on
ScoreDocs ==
    [score : Scores, report : BOOLEAN, climate : BOOLEAN, long : BOOLEAN,
     source : {"company_website", "search"}]

\* Curator.evaluate_documents, one pass of the loop body: base score, boost,
\* final score, decision
EvaluateDocument ==
    /\ ~doc_eval.done
    /\ doc_eval' = [boost |-> authority_boost(doc_in), final |-> final_score(doc_in),
                    kept |-> kept(doc_in), done |-> TRUE]
    /\ UNCHANGED doc_in
    /\ UNCHANGED <<jobvars, graphvars, curvars, briefvars, wsvars, syncvars>>

InitScore ==
    /\ mongodb_on = FALSE
    /\ sem = MAX_CONCURRENT_JOBS
    /\ pc = [j \in Jobs |-> "idle"]
    /\ record_id = [j \in Jobs |-> FALSE]
    /\ job_status = [j \in Jobs |-> "absent"]
    /\ mongo_jobs = [j \in Jobs |-> "absent"]
    /\ log = [j \in Jobs |-> <<>>]
    /\ airtable = [j \in Jobs |-> <<>>]
    /\ final = [j \in Jobs |-> "none"]
    /\ node = "grounding"
    /\ rstat = [r \in Researchers |-> "idle"]
    /\ rout = [r \in Researchers |-> NoState]
    /\ State = NoState
    /\ last = [node |-> "none", raises |-> FALSE, diag |-> FALSE, esc |-> FALSE]
    /\ ran = {}
    /\ published = <<>>
    /\ raw_data = <<>>
    /\ cstep = "collecting"
    /\ curated_data = <<>>
    /\ references = <<>>
    /\ bdocs = [j \in BriefingJobs |-> {}]
    /\ bstage = [j \in BriefingJobs |-> "start"]
    /\ btask = [j \in BriefingJobs |-> [c \in Categories |-> "none"]]
    /\ bsem = [j \in BriefingJobs |-> briefing_limit]
    /\ active_connections = NoConnections
    /\ ws_call = NoCall
    /\ accepts = NoAccepts
    /\ SyncIdle
    /\ doc_in \in ScoreDocs
    /\ doc_eval = NoEval

NextScore == EvaluateDocument

\* SpecScore: the scoring step applied to one document
SpecScore == InitScore /\ [][NextScore]_vars

\* ------------------------------------------------------------ properties
\* Jobs between job_semaphore.acquire() and job_semaphore.release()
Holders == {j \in Jobs : pc[j] \in {"acquired", "starting", "graph", "conclude",
                                    "handler", "returned", "raised"}}

\* Jobs for which process_research has left a trace
Started(j) == log[j] # <<>> \/ mongo_jobs[j] # "absent" \/ pc[j] \in {"starting", "graph", "conclude", "handler"}

In(seq, e) == \E i \in 1..Len(seq) : seq[i] = e

\* C1: at most MAX_CONCURRENT_JOBS jobs are between acquiring and releasing a
\* slot, and a job that is waiting while MAX_CONCURRENT_JOBS jobs hold slots
\* stays waiting, with process_research not started, until a slot is released.
C1_AtMostNRunning ==
    [][ /\ Cardinality(Holders') <= MAX_CONCURRENT_JOBS
        /\ \A j \in Jobs :
              pc[j] = "queued" /\ Cardinality(Holders) = MAX_CONCURRENT_JOBS
                  => pc'[j] = "queued" /\ ~Started(j)' ]_vars

\* C1 witness: the capacity is exhausted by jobs executing the pipeline while
\* another submitted job waits
C1_Witness ==
    /\ sem = 0
    /\ Cardinality({j \in Jobs : pc[j] = "graph"}) = MAX_CONCURRENT_JOBS
    /\ \E j \in Jobs : pc[j] = "queued"

\* C2: free slots plus slot holders is always MAX_CONCURRENT_JOBS, free slots
\* never exceed it, and all slots are free once every job has finished: each
\* acquired slot is released exactly once, however process_research ended.
C2_SlotsConserved ==
    /\ sem + Cardinality(Holders) = MAX_CONCURRENT_JOBS
    /\ sem <= MAX_CONCURRENT_JOBS
    /\ (\A j \in Jobs : pc[j] = "finished") => sem = MAX_CONCURRENT_JOBS

\* C2 witness: every job has finished and the slots are all free, one of the
\* jobs having left process_research by an exception out of its failure
\* handler (it recorded its report, yet announced neither outcome)
C2_Witness ==
    /\ \A j \in Jobs : pc[j] = "finished"
    /\ sem = MAX_CONCURRENT_JOBS
    /\ \E j \in Jobs : /\ job_status[j] = "completed"
                       /\ ~In(log[j], Ev("ws", "completed"))
                       /\ ~In(log[j], Ev("ws", "failed"))

\* Researchers whose analyze step raised
Raised == {r \in Researchers : rstat[r] \in {"failed", "escaped"}}

Finished(r) == rstat[r] \in {"done", "failed"}

\* C3: when exactly one researcher raises inside analyze, the graph run is not
\* ended by it, and the merged State collector starts on holds the raw key of
\* each of the other four.
C3_OneResearcherFailureTolerated ==
    Cardinality(Raised) = 1 =>
        /\ \A r \in Researchers : rstat[r] # "escaped"
        /\ node \in TailNodes =>
               \A r \in Researchers \ Raised : Has(State, RawKey(r))

\* C4: an error raised inside collector, curator, enricher, briefing,
\* raw_compiler, tagger or airtable_uploader never leaves the stage's run
\* entry point.
C4_NoTailStageEscapes ==
    last.node \in TailNodes /\ last.raises => ~last.esc

AnnouncedFailed(j) == In(log[j], Ev("ws", "failed")) \/ In(log[j], Ev("mongo", "failed"))

AnnouncedCompleted(j) ==
    \/ In(log[j], Ev("ws", "completed"))
    \/ In(log[j], Ev("mongo", "completed"))
    \/ In(log[j], Ev("job_status", "completed"))

Exited(j) == pc[j] \in {"returned", "raised", "finished"}

\* C5: the traced job is reported failed only if its graph run did not run to
\* completion (final "none": it raised, or process_research raised before
\* starting it) or ended without a report, and a job whose graph run ended
\* with a report is reported completed and not failed.
C5_FailedOnlyWithoutReport ==
    /\ AnnouncedFailed(TracedJob) => final[TracedJob] \in {"none", "noreport"}
    /\ final[TracedJob] = "report" /\ Exited(TracedJob) =>
           In(log[TracedJob], Ev("ws", "completed")) /\ ~AnnouncedFailed(TracedJob)

\* C6: no job is recorded or announced both completed and failed.
C6_TerminalOnce ==
    \A j \in Jobs : ~(AnnouncedCompleted(j) /\ AnnouncedFailed(j))

Terminal == {"completed", "failed"}

\* C7: once process_research has ended for a job, its job_status entry and,
\* when persistence is configured, its stored job record hold completed or
\* failed.
C7_TerminalOnExit ==
    \A j \in Jobs : Exited(j) =>
        /\ job_status[j] \in Terminal
        /\ mongodb_on => mongo_jobs[j] \in Terminal

\* C8: a submitted job that has not yet acquired a slot has a status record
\* that reads queued (job_status entry, stored job record, or the external
\* record's Research Status).
C8_QueuedRecordWhileWaiting ==
    \A j \in Jobs : pc[j] = "queued" =>
        \/ job_status[j] = "queued"
        \/ mongo_jobs[j] = "queued"
        \/ (airtable[j] # <<>> /\ airtable[j][Len(airtable[j])] = "Queued")

\* C9: a job that has not acquired a slot has no running status anywhere: no
\* 'processing' announcement, no 'In Progress' on the external record, no
\* registry status other than absent.
C9_NoRunningBeforeAcquire ==
    \A j \in Jobs : pc[j] \in {"idle", "queued"} =>
        /\ ~In(log[j], Ev("ws", "processing"))
        /\ ~In(airtable[j], "In Progress")
        /\ job_status[j] = "absent"
        /\ mongo_jobs[j] = "absent"

\* C9 witness: a webhook job with a record id was marked Queued at submission
\* and, slot acquired, is announced processing and marked In Progress
C9_Witness ==
    /\ pc[TracedJob] = "graph"
    /\ In(log[TracedJob], Ev("ws", "processing"))
    /\ airtable[TracedJob] = <<"Queued", "In Progress">>

\* C10: collector and the stages after it run, and the merged State they read
\* is formed, only when all five researchers have finished.
C10_FanInBarrier ==
    (node \in TailNodes \cup {"__end__"} \/ last.node \in TailNodes
        \/ ran \cap TailNodes # {})
        => \A r \in Researchers : Finished(r)

\* C10 witness: collector has run after a fan-out in which some researchers
\* succeeded and some failed
C10_Witness ==
    /\ last.node = "collector"
    /\ "collector" \in ran
    /\ \E r \in Researchers : rstat[r] = "failed"
    /\ \E r \in Researchers : rstat[r] = "done"
    /\ \A r \in Researchers : Has(State, RawKey(r)) \/ r = "flw_analyzer"

\* Graph._build_workflow: the nodes with an edge into n
Predecessors(n) ==
    CASE n = "grounding"   -> {}
      [] n \in Researchers -> {"grounding"}
      [] n = "collector"   -> Researchers
      [] OTHER             -> {m \in TailNodes : Successor(m) = n}

\* Keys the update of a stage always carries
Marks(n) ==
    CASE n = "grounding"    -> {"site_scrape"}
      [] n \in Researchers \ {"flw_analyzer"} -> {RawKey(n)}
      [] n = "collector"    -> {legacy_fields[i] : i \in 1..Len(legacy_fields)}
      [] n = "curator"      -> {"references", "curated_flw_data"}
      [] n = "briefing"     -> {"briefings"}
      [] n = "raw_compiler" -> {"report"}
      [] n = "tagger"       -> {"airtable_industries"}
      [] OTHER              -> {}

\* C11: a stage runs at most once, only after every stage with an edge into it
\* has run and with their updates merged into the State it reads; the graph
\* order is grounding, the five researchers, collector, curator, enricher,
\* briefing, raw_compiler, tagger, airtable_uploader, and a graph run that
\* reaches its end has run each of them.
C11_StageOrder ==
    [][ /\ last' # last =>
              /\ last'.node \notin ran
              /\ Predecessors(last'.node) \subseteq ran
              /\ \A m \in Predecessors(last'.node) : Marks(m) \subseteq DOMAIN State
        /\ node' = "__end__" => ran' = Stages ]_vars

\* C11 witness: a graph run has reached its end, all thirteen stages run
C11_Witness ==
    /\ node = "__end__"
    /\ ran = Stages
    /\ last.node = "airtable_uploader"
    /\ pc[TracedJob] = "conclude"

Last(seq) == seq[Len(seq)]

\* C12: the progress percentages published for one job never decrease,
\* whatever the order in which the five researchers finish, and the five
\* researchers map to one percentage.
C12_ProgressMonotone ==
    /\ \A i, k \in 1..Len(published) : i <= k => published[i] <= published[k]
    /\ \A r \in Researchers :
           calculate_progress(r) = calculate_progress("company_brief_node")

\* C12 witness: a whole run has published its thirteen events, the five
\* researcher events with one percentage between grounding's and collector's
C12_Witness ==
    /\ Len(published) = Len(node_sequence)
    /\ published[1] < published[2]
    /\ \A i \in 2..6 : published[i] = published[2]
    /\ published[6] < published[7]
    /\ Last(published) = 100

\* Ordinal of a stage in the list of stage ordinals, the researchers sharing one
Ordinal(n) ==
    IF n = "grounding" THEN 0
    ELSE IF n \in Researchers THEN 1
    ELSE IndexOf(tail_nodes, n) + 2

TotalOrdinals == Len(tail_nodes) + 2

\* round(a / b) for non-negative a, positive b
Round(a, b) == (2 * a + b) \div (2 * b)

\* The state_update event published last belongs to stage n
JustPublished(n) ==
    /\ last.node = n
    /\ published # <<>>
    /\ \/ n = "grounding" /\ node = "research"
       \/ n \in Researchers /\ node = "collector"
       \/ n \in TailNodes /\ node = Successor(n)

\* C13: the progress published for the stage at ordinal k is
\* min(100, round(100 * (k + 1) / T)), T the number of stage ordinals.
C13_ProgressFormula ==
    \A n \in Stages : JustPublished(n) =>
        Last(published) = Min(100, Round(100 * (Ordinal(n) + 1), TotalOrdinals))

\* ------------------------------------------------------ C14 - C20 (SpecCurate)
Curated == cstep = "curated"

\* The page a URL names: what is left of it once scheme and host are
\* lower-cased and query, fragment and trailing slash are removed
NormalizedUrl(u) == u[1]

Indices(seq) == 1..Len(seq)

\* C14: in the curated set the curator writes, no two entries have the same
\* normalized URL, whether taken from the URL the entry is stored under or
\* from the URL it was found under.
C14_NoDuplicateUrl ==
    Curated =>
        \A i, k \in Indices(curated_data) :
            i # k => /\ NormalizedUrl(curated_data[i].url) # NormalizedUrl(curated_data[k].url)
                     /\ NormalizedUrl(curated_data[i].key) # NormalizedUrl(curated_data[k].key)

\* Two found documents of one page, differing only in the trailing slash;
\* the page is in the curated set
C14_Witness ==
    /\ Curated
    /\ \E i, k \in Indices(raw_data) :
           /\ raw_data[i].key = <<1, "plain">>
           /\ raw_data[k].key = <<1, "slash">>
    /\ \E i \in Indices(curated_data) : NormalizedUrl(curated_data[i].url) = 1

\* The final score of a document: its search score plus the boost its title
\* earns, at most 1.00
FinalScore(d) == Min(100, d.score + (IF d.report THEN report_boost ELSE 0))

\* C15: the curated set the curator writes is ordered by final (boosted)
\* score, highest first, and the score each entry carries is its final score.
C15_SortedByFinalScore ==
    Curated =>
        /\ \A i \in Indices(curated_data) :
               curated_data[i].overall_score = FinalScore(curated_data[i])
        /\ \A i, k \in Indices(curated_data) :
               i < k => curated_data[i].overall_score >= curated_data[k].overall_score

\* A document found earlier scores lower than one found later, and both are
\* in the curated set, the higher one first
C15_Witness ==
    /\ Curated
    /\ \E i, k \in Indices(raw_data), a, b \in Indices(curated_data) :
           /\ i < k /\ a < b
           /\ curated_data[a].key = raw_data[k].key
           /\ curated_data[b].key = raw_data[i].key
           /\ curated_data[a].overall_score > curated_data[b].overall_score

\* The documents left after URL deduplication, and those of them that pass
\* the filter as the specification states it
Deduplicated == Range(unique_docs(raw_data, <<>>))

\* A score that is not a number is no score: such a document has no final
\* score and does not pass
Scored(d) == d.score # Malformed

Passes(d) ==
    /\ Scored(d)
    /\ FinalScore(d) >= relevance_threshold \/ d.source = "company_website"

Passing == {d \in Deduplicated : Passes(d)}

InCurated(d) == \E i \in Indices(curated_data) : curated_data[i].key = d.key

\* The documents that passed and were cut
Cut == {d \in Passing : ~InCurated(d)}

\* C16: the curated set has at most 30 entries, and when more than 30
\* documents pass the filter it has exactly 30 and no document left out
\* scores higher than one that is in.
C16_CapKeepsTop ==
    Curated =>
        /\ Len(curated_data) <= curated_cap
        /\ LET cut == Cut
           IN  cut # {} =>
                  /\ Len(curated_data) = curated_cap
                  /\ \A d \in cut, k \in Indices(curated_data) :
                         FinalScore(d) <= curated_data[k].overall_score

\* More than 30 documents passed, and one that passed on its score was cut
C16_Witness ==
    /\ Curated
    /\ Len(curated_data) = curated_cap
    /\ \E d \in Cut : Scored(d) /\ FinalScore(d) >= relevance_threshold

FirstPartyLow ==
    {d \in Deduplicated :
        d.source = "company_website" /\ FinalScore(d) < relevance_threshold}

C19_FirstSeenKept ==
    Curated =>
        /\ \A i, k \in Indices(raw_data) :
               (i < k /\ NormalizedUrl(raw_data[i].key) = NormalizedUrl(raw_data[k].key))
                   => ~InCurated(raw_data[k])
        /\ ( /\ Len(raw_data) = 3
             /\ raw_data[1].source = "search"
             /\ Scored(raw_data[1]) /\ FinalScore(raw_data[1]) < relevance_threshold
             /\ Scored(raw_data[2]) /\ FinalScore(raw_data[2]) >= relevance_threshold
             /\ NormalizedUrl(raw_data[1].key) # NormalizedUrl(raw_data[2].key)
             /\ NormalizedUrl(raw_data[3].key) = NormalizedUrl(raw_data[2].key) )
               => /\ Len(curated_data) = 1
                  /\ curated_data[1].key = raw_data[2].key

\* The entry seen first is filtered out, a later entry of the same URL
\* scores above the threshold, and the curated set holds neither
C19_Witness ==
    /\ Curated
    /\ \E i, k \in Indices(raw_data) :
           /\ i < k
           /\ NormalizedUrl(raw_data[i].key) = NormalizedUrl(raw_data[k].key)
           /\ Scored(raw_data[i]) /\ ~Passes(raw_data[i])
           /\ Scored(raw_data[k]) /\ FinalScore(raw_data[k]) > relevance_threshold
           /\ \A a \in Indices(curated_data) :
                  NormalizedUrl(curated_data[a].url) # NormalizedUrl(raw_data[i].key)

AllCurated ==
    LET st == written_sets(curated_data)
    IN  UNION {Range(st[k]) : k \in DOMAIN st}

\* The highest score a normalized URL has among the curated entries
BestScore(all, u) ==
    CHOOSE x \in {e.overall_score : e \in {c \in all : NormalizedUrl(c.url) = u}} :
        \A e \in all : NormalizedUrl(e.url) = u => e.overall_score <= x

CuratedKey(r) == "curated_" \o RawKey(r)

\* C22: once the curator has run, State holds a curated set for each
\* researcher category; in particular a category whose researcher collected
\* documents is not left without one.
C22_CuratedSetPerCategory ==
    (last.node = "curator" /\ ~last.esc /\ ~last.raises)
        => \A r \in Researchers :
               Get(State, RawKey(r), "empty") = "docs" => Has(State, CuratedKey(r))

\* C23: a failed external sync does not change the job outcome.  The upload
\* node never lets its failure out and leaves the report in State, and a job
\* whose graph run ended with a report is recorded completed whether or not
\* the upload went through.  (Status pings are detached tasks whose helper
\* catches every exception: they are issued and never awaited.)
C23_SyncFailureNotJobFailure ==
    /\ last.node = "airtable_uploader" => ~last.esc /\ Outcome(State) = "report"
    /\ (last.node = "airtable_uploader" /\ final[TracedJob] = "report" /\ Exited(TracedJob))
           => /\ job_status[TracedJob] = "completed"
              /\ In(log[TracedJob], Ev("job_status", "completed"))

\* The upload for a job with an external record failed, nothing marked the
\* record Completed, and the job was announced completed
C23_Witness ==
    /\ last.node = "airtable_uploader" /\ last.raises
    /\ record_id[TracedJob]
    /\ ~In(airtable[TracedJob], "Completed")
    /\ Exited(TracedJob)
    /\ In(log[TracedJob], Ev("ws", "completed"))
    /\ ~AnnouncedFailed(TracedJob)

\* ------------------------------------------------------ C24, C25 (SpecBrief)
Generating(j) == {c \in Categories : btask[j][c] = "generating"}

\* C24: within one job at most 3 generation calls are in progress, and the
\* permits of a job's limiter are taken by that job's own calls only: free
\* permits plus own calls in progress always make 3, whatever the other job
\* does, and the job semaphore is not touched.  Two jobs together can have
\* 6 calls in progress.
C24_BriefingLimiterPerJob ==
    /\ \A j \in BriefingJobs :
           /\ Cardinality(Generating(j)) <= briefing_limit
           /\ bsem[j] >= 0
           /\ bsem[j] + Cardinality(Generating(j)) = briefing_limit
    /\ sem = MAX_CONCURRENT_JOBS

\* Both jobs have 3 calls in progress at once, 6 in all, and in each a
\* fourth task waits on its own job's limiter
C24_Witness ==
    \A j \in BriefingJobs :
        /\ Cardinality(Generating(j)) = briefing_limit
        /\ bsem[j] = 0
        /\ \E c \in Categories : btask[j][c] = "waiting"

\* The briefing tasks of a job that failed: the generation call failed or
\* returned nothing, or the task raised
FailedTasks(j) == {c \in bdocs[j] : btask[j][c] \in {"empty", "raised"}}

\* C25: a failure in one category's briefing task does not keep the stage
\* from returning (so that raw_compiler, tagger and airtable_uploader run),
\* and when the stage has returned every other task has ended with its
\* result stored.
C25_BriefingFailureContained ==
    \A j \in BriefingJobs :
        FailedTasks(j) # {} =>
            /\ bstage[j] # "escaped"
            /\ bstage[j] = "returned" =>
                   \A c \in bdocs[j] \ FailedTasks(j) : btask[j][c] = "stored"

\* ------------------------------------------------------ C26 (SpecFair)
\* C26: under fair scheduling every submitted job eventually acquires a slot
\* and eventually ends with a terminal status in its job_status entry.
C26_EventuallyTerminal ==
    \A j \in Jobs :
        /\ (pc[j] = "queued") ~> (pc[j] = "acquired")
        /\ (pc[j] = "queued") ~> (pc[j] = "finished" /\ job_status[j] \in Terminal)

\* ------------------------------------------------------ C27 (SpecWs)
\* C27: broadcast_to_job and send_status_update for a job id without a
\* registered subscriber return without raising and leave the connection
\* table as it was.
C27_NoSubscriberNoOp ==
    [][ (ws_call' # ws_call /\ ws_call'.job \notin DOMAIN active_connections)
            => /\ ws_call'.outcome = "returned"
               /\ ws_call'.sent = 0
               /\ active_connections' = active_connections ]_vars

\* send_status_update for a job nobody listens to has returned, while
\* another job has subscribers
C27_Witness ==
    /\ ws_call.method = "send_status_update"
    /\ ws_call.sent = 0
    /\ ws_call.outcome = "returned"
    /\ ws_call.job \notin DOMAIN active_connections
    /\ active_connections # NoConnections

\* ------------------------------------------------------ C28
tagger_required_keys ==
    {"airtable_industries", "airtable_country_region", "airtable_revenue_band_est"}

\* C28: after Tagger.run has returned - classification succeeded, found
\* nothing usable or raised - each of airtable_industries,
\* airtable_country_region and airtable_revenue_band_est is in State and
\* holds a non-empty list, whichever briefings are present.
C28_TaggerKeysPresent ==
    last.node = "tagger"
        => \A k \in tagger_required_keys : Get(State, k, "absent") = "list"

\* ------------------------------------------------------ C29
\* Once raw_compiler has run State holds a report, and a graph run that
\* reaches its finish point is concluded on the report-found branch
ReportFound ==
    /\ "raw_compiler" \in ran => Get(State, "report", "") = "text"
    /\ pc[TracedJob] = "conclude" => final[TracedJob] = "report"
    /\ final[TracedJob] # "noreport"

\* C29: whenever the graph reaches raw_compiler the report is afterwards a
\* non-empty string, so a job whose graph run completes without a
\* graph-level error never takes the 'no report' exit and is recorded
\* completed - also when no researcher found a document and every briefing
\* is empty.
C29_CompletedWhenGraphCompletes ==
    /\ ReportFound
    /\ (final[TracedJob] # "none" /\ Exited(TracedJob))
           => /\ job_status[TracedJob] = "completed"
              /\ In(log[TracedJob], Ev("job_status", "completed"))

\* A job for which no researcher returned a document and no briefing was
\* written with text has run to its end and was announced completed
C29_Witness ==
    /\ \A r \in Researchers : Get(State, RawKey(r), "none") = "empty"
    /\ \A i \in 1..Len(briefing_categories) : Get(State, briefing_categories[i][2], "none") = ""
    /\ \A i \in 1..Len(report_order) : Get(State, report_order[i], "") = ""
    /\ Get(State, "report", "") = "text"
    /\ Exited(TracedJob)
    /\ job_status[TracedJob] = "completed"
    /\ In(log[TracedJob], Ev("ws", "completed"))

\* ------------------------------------------------------ C30
\* The State keys a researcher's analyze assigns on its way: every one of
\* them appends to State['messages'] and stores the list back, then stores
\* its documents
researcher_writes(r) == {"messages", RawKey(r)}

\* The update a researcher hands to the executor: run returns the State it
\* was given, as a whole
researcher_update(r) == DOMAIN rout[r]

\* Researchers that have returned to the executor
Returned == {r \in Researchers : rstat[r] \in {"done", "failed"}}

\* Keys of update b that are new or hold another value than in a
Changed(a, b) == {k \in DOMAIN b : ~Has(a, k) \/ a[k] # b[k]}

\* C30: a researcher changes only its own category's raw-document key of the
\* State grounding left, writes no key a sibling writes, and the update it
\* returns shares no key with a sibling's update.
C30_ResearcherUpdatesDisjoint ==
    \A r \in Returned :
        /\ node = "research" => Changed(State, rout[r]) \subseteq {RawKey(r)}
        /\ \A s \in Returned \ {r} :
               /\ researcher_writes(r) \cap researcher_writes(s) = {}
               /\ researcher_update(r) \cap researcher_update(s) = {}

\* ------------------------------------------------------ C31 (SpecSync)
\* Position of a status in the pipeline's order
StatusRank(s) ==
    IF s = "none" THEN 0
    ELSE IF s = "Completed" THEN Len(status_pings) + 1
    ELSE CHOOSE i \in 1..Len(status_pings) : status_pings[i] = s

\* C31: the statuses are applied to the external record in the order they
\* were issued: the record never goes back to the status of an earlier
\* stage, and once it reads Completed no earlier ping lands on it.
C31_StatusInIssueOrder ==
    [][StatusRank(research_status') >= StatusRank(research_status)]_vars

\* ------------------------------------------------------ C32 (SpecCurate)
\* C32: curation leaves the raw-document field in place with its documents
\* unmodified: the same keys, and every document with the fields and values
\* it had.
C32_RawDocumentsUntouched ==
    [][cstep' # cstep => raw_data' = raw_data]_vars

\* ------------------------------------------------------ C33
\* The keys the briefing stage writes its category briefings under
BriefingKeys == {briefing_categories[i][2] : i \in 1..Len(briefing_categories)}

C34_TelemetryAdvisory ==
    [][cstep' # cstep =>
          /\ curated_data' = curate_field(raw_data)
          /\ references' = process_references(written_sets(curate_field(raw_data)))]_vars

\* ------------------------------------------------------ C35
\* The keys under which the stages after a stage read its output: the curated
\* sets and references (enricher, references, upload), the briefings
\* (raw_compiler, tagger, upload), the tags (upload)
output_keys(n) ==
    CASE n = "curator"  -> Range(v2_curated_keys) \cup {"references"}
      [] n = "enricher" -> Range(v2_curated_keys)
      [] n = "briefing" -> Range(report_order)
      [] n = "tagger"   -> {"airtable_industries", "airtable_country_region",
                            "airtable_revenue_band_est", "airtable_refed_alignment"}

\* {} | '' | [] ; the tagger's neutral default is ['Unknown'], and the
\* enricher's output keys are the curated sets it was given, which a
\* default leaves as they are
NeutralValues(n) ==
    CASE n = "tagger"   -> {"nil", "list"}
      [] n = "enricher" -> {"empty", "docs"}
      [] OTHER          -> {"empty", "", "nil"}

\* C35: when curator, enricher, briefing or tagger fails, the stage returns,
\* a diagnostic message is recorded in State, and each of its output keys is
\* in State with an empty value, under the name the later stages read.
C35_FailedStageDefaultsOutput ==
    (last.node \in {"curator", "enricher", "briefing", "tagger"} /\ last.raises)
        => /\ ~last.esc
           /\ last.diag
           /\ \A k \in output_keys(last.node) :
                  Get(State, k, "absent") \in NeutralValues(last.node)

\* ------------------------------------------------------ C36 (SpecCurate)
\* The documents of the field whose score is a number
WellFormed(data) == SelectSeq(data, LAMBDA d : d.score # Malformed)

\* C36, as claimed: a document whose score is not a number is skipped, and
\* the curated set is the one the field would get without that document:
\* every other document is evaluated and kept or dropped as if it were
\* absent.
C36_MalformedSkipped ==
    [][cstep' = "curated" => curated_data' = curate_field(WellFormed(raw_data))]_vars

\* C36, amended: a document whose score is not a number is skipped at
\* evaluation, after URL deduplication, and the documents evaluated with it
\* are kept or dropped as if it were absent: the curated set is the one the
\* deduplicated documents give once the malformed ones are taken out.  (A
\* document stored after a malformed one of the same clean URL is dropped as
\* its duplicate.)
C36_MalformedSkippedAfterDedup ==
    [][cstep' = "curated" =>
          /\ curated_data' = curate_field(WellFormed(unique_docs(raw_data, <<>>)))
          /\ \A i \in Indices(curated_data') : curated_data'[i].score # Malformed]_vars

\* A field with a malformed document and a search hit above the threshold
\* was curated: the hit is in the curated set, the malformed document is not
C36_Witness ==
    /\ Curated
    /\ \E i, k \in Indices(raw_data) :
           /\ raw_data[i].score = Malformed
           /\ ~InCurated(raw_data[i])
           /\ raw_data[k].source = "search" /\ Scored(raw_data[k])
           /\ InCurated(raw_data[k])

C38_CuratedSetImmutable ==
    [][(cstep # "collecting") => (curated_data' = curated_data)]_vars

\* ------------------------------------------------------ C39 (SpecBrief)
\* C39: the briefing stage starts exactly one generation task for each
\* category whose curated set is non-empty and none for a category whose
\* curated set is empty or missing, whose briefing key is set to the empty
\* string instead; the stage returns, and so raw_compiler starts, only after
\* every started task has finished.  ("none": no task and '' under the key;
\* a task that has ended is never started again.)
C39_OneTaskPerCategory ==
    /\ [](\A j \in BriefingJobs :
             /\ bstage[j] \in {"gathering", "returned"} =>
                    \A c \in Categories : (btask[j][c] # "none") <=> (c \in bdocs[j])
             /\ bstage[j] = "returned" =>
                    \A c \in Categories : btask[j][c] \in {"none", "stored", "empty"})
    /\ [][\A j \in BriefingJobs, c \in Categories :
             /\ btask[j][c] \in {"stored", "empty", "raised"} => btask'[j][c] = btask[j][c]
             /\ btask[j][c] = "generating" => btask'[j][c] # "waiting"]_vars

\* A stage with documents for some categories and none for others has
\* returned, and a task that was held back by the limiter is among the
\* finished ones
C39_Witness ==
    \E j \in BriefingJobs :
        /\ bstage[j] = "returned"
        /\ Cardinality(bdocs[j]) > briefing_limit
        /\ bdocs[j] # Categories
        /\ \A c \in bdocs[j] : btask[j][c] \in {"stored", "empty"}
        /\ \E c \in bdocs[j] : btask[j][c] = "stored"

\* --------------------------------------------------------- C40 (SpecWs)
\* C40: a websocket client that connects for job J is accepted exactly once
\* and is then registered as a subscriber of J, staying registered until it
\* disconnects or a send to it fails; while registered it is listed once
\* among the subscribers of J and of no other job, so that it is sent each
\* update of J at most once.
C40_AcceptedOnceRegisteredOnce ==
    /\ [](\A j \in DOMAIN active_connections :
             \A i \in 1..Len(active_connections[j]) :
                 LET w == active_connections[j][i]
                 IN  /\ accepts[w] = 1
                     /\ \A k \in DOMAIN active_connections :
                            \A n \in 1..Len(active_connections[k]) :
                                active_connections[k][n] = w => (k = j /\ n = i))
    /\ [][\A j \in DOMAIN active_connections :
             \A w \in Range(active_connections[j]) :
                 w \notin Range(Registered(j))' =>
                     \/ active_connections' = Without(active_connections, w, j)
                     \/ ws_call' # ws_call /\ ws_call'.job = j]_vars

====
